---- MODULE Spec2Model ----
(***************************************************************************)
(* Agent lifecycle and transcript-driven status engine of pixel-agents.    *)
(*                                                                         *)
(* The state is the process-wide registries of the backend (agents map,    *)
(* timer maps, watcher maps, known-files set, active agent, id counter),   *)
(* the pending setTimeout callbacks, and the part of the file system the   *)
(* backend observes.  Every event-loop handler (fs.watch callback, poll    *)
(* tick, timer callback, inbound command) is one action.  Handlers are     *)
(* written as operators from a "world" record to a world record so that    *)
(* the calls they make compose the way the TypeScript calls do.            *)
(***************************************************************************)
EXTENDS Integers, Sequences, FiniteSets, TLC

\* ------------------------------------------------------------------ bounds
MaxFileSize == 10       \* bytes a transcript file can grow to
MaxTailFile == 5        \* bytes of the file in the byte-level tailing specification
MaxPendingDone == 2     \* delayed tool-done callbacks that can be pending at once
MaxAgents == 2          \* agents ever created in the registry specification
MaxRegistryFile == 2    \* bytes a transcript grows to in the registry specification
MaxCodexFile == 4       \* bytes a codex transcript grows to in the registry specification
MaxMoveFile == 6        \* bytes a transcript grows to in the reassignment specification
MaxServerFile == 4      \* bytes a transcript grows to in the server specification
MaxPromptAgents == 3    \* agents ever created in the prompt specification
MaxPromptFile == 2      \* bytes a transcript grows to in the prompt specification
MaxStartupAgents == 2   \* agents launched in the startup specification

\* ------------------------------------------------------------ vocabulary
NoAgent == 0
Providers == {"claude", "codex"}
ToolIds == {"t1", "t2"}
SubToolIds == {"s1"}

PERMISSION_EXEMPT_TOOLS == {"Task", "AskUserQuestion"}
CODEX_PERMISSION_SENSITIVE_TOOLS == {"exec_command", "shell_command"}

\* A function with an empty domain: an empty Map.
EmptyMap == [k \in {} |-> 0]

MapSet(m, k, v) == [x \in DOMAIN m \cup {k} |-> IF x = k THEN v ELSE m[x]]
MapDelete(m, k) == [x \in DOMAIN m \ {k} |-> m[x]]
MapGet(m, k, dflt) == IF k \in DOMAIN m THEN m[k] ELSE dflt

Has(r, f) == f \in DOMAIN r

\* ------------------------------------------------------------ world record
\* Events sent to subscribers by the handler that is running.
Send(w, msg) == [w EXCEPT !.sent = Append(@, msg)]

SetAgent(w, id, ag) == [w EXCEPT !.agents = MapSet(@, id, ag)]

\* --------------------------------------------------------- timer manager
cancelWaitingTimer(w, id) == [w EXCEPT !.waitingTimers = @ \ {id}]

cancelPermissionTimer(w, id) == [w EXCEPT !.permissionTimers = @ \ {id}]

\* Starting a timer replaces the one in its slot; w.timerStarts lists the
\* timers the running handler has started, in order.
startWaitingTimer(w, id) ==
    LET c == cancelWaitingTimer(w, id)
    IN  [c EXCEPT !.waitingTimers = @ \cup {id},
                  !.timerStarts = Append(@, <<"waiting", id>>)]

startPermissionTimer(w, id) ==
    LET c == cancelPermissionTimer(w, id)
    IN  [c EXCEPT !.permissionTimers = @ \cup {id},
                  !.timerStarts = Append(@, <<"permission", id>>)]

ClearedTools(ag) ==
    [ag EXCEPT !.activeToolIds = {},
               !.activeToolStatuses = EmptyMap,
               !.activeToolNames = EmptyMap,
               !.activeSubagentToolIds = EmptyMap,
               !.activeSubagentToolNames = EmptyMap]

clearAgentActivity(w, id) ==
    IF id \notin DOMAIN w.agents THEN w
    ELSE LET ag == [ClearedTools(w.agents[id]) EXCEPT !.isWaiting = FALSE,
                                                       !.permissionSent = FALSE]
             w1 == cancelPermissionTimer(SetAgent(w, id, ag), id)
         IN  Send(w1, [type |-> "agentToolsClear", id |-> id])

\* ------------------------------------------------------ transcript parser
\* Status texts are pairs <<fixed phrase, interpolated part>>.  Tool inputs are
\* not part of the modelled records, so the interpolated command / file name /
\* description is the empty string, as the code yields for an absent input.
formatCodexToolStatus(toolName) ==
    CASE toolName = "exec_command" -> <<"Running command", "">>
      [] toolName = "shell_command" -> <<"Running command", "">>
      [] toolName = "write_stdin" -> <<"Interacting with command", "">>
      [] toolName = "update_plan" -> <<"Updating plan", "">>
      [] toolName = "apply_patch" -> <<"Editing files", "">>
      [] OTHER -> <<"Using ", toolName>>

formatToolStatus(toolName) ==
    CASE toolName = "Read" -> <<"Reading ", "">>
      [] toolName = "Edit" -> <<"Editing ", "">>
      [] toolName = "Write" -> <<"Writing ", "">>
      [] toolName = "Bash" -> <<"Running: ", "">>
      [] toolName = "Glob" -> <<"Searching files", "">>
      [] toolName = "Grep" -> <<"Searching code", "">>
      [] toolName = "WebFetch" -> <<"Fetching web content", "">>
      [] toolName = "WebSearch" -> <<"Searching the web", "">>
      [] toolName = "Task" -> <<"Running subtask", "">>
      [] toolName = "AskUserQuestion" -> <<"Waiting for your answer", "">>
      [] toolName = "EnterPlanMode" -> <<"Planning", "">>
      [] toolName = "NotebookEdit" -> <<"Editing notebook", "">>
      [] OTHER -> <<"Using ", toolName>>

setWaitingStatus(w, id) ==
    LET w1 == cancelPermissionTimer(cancelWaitingTimer(w, id), id)
        ag == w1.agents[id]
        hadTools == ag.activeToolIds # {}
        ag1 == IF hadTools THEN ClearedTools(ag) ELSE ag
        w2 == IF hadTools
              THEN Send(SetAgent(w1, id, ag1), [type |-> "agentToolsClear", id |-> id])
              ELSE w1
        ag2 == [ag1 EXCEPT !.isWaiting = TRUE,
                           !.permissionSent = FALSE,
                           !.hadToolsInTurn = FALSE]
    IN  Send(SetAgent(w2, id, ag2), [type |-> "agentStatus", id |-> id, status |-> "waiting"])

\* setTimeout(() => send(agentToolDone), TOOL_DONE_DELAY_MS): a pending callback.
ScheduleDone(w, msg) == [w EXCEPT !.doneTimers = Append(@, msg)]

\* A new turn that leaves the waiting timer alone.
NewTurnKeepsWaitingTimer(w, id) ==
    LET w1 == clearAgentActivity(w, id)
    IN  SetAgent(w1, id, [w1.agents[id] EXCEPT !.hadToolsInTurn = FALSE])

NewTurn(w, id) ==
    LET w1 == clearAgentActivity(cancelWaitingTimer(w, id), id)
    IN  SetAgent(w1, id, [w1.agents[id] EXCEPT !.hadToolsInTurn = FALSE])

CodexFunctionCall(w, id, payload) ==
    IF ~Has(payload, "call_id") \/ ~Has(payload, "name") THEN w
    ELSE LET toolId == payload.call_id
             toolName == payload.name
             status == formatCodexToolStatus(toolName)
             ag == w.agents[id]
             ag1 == [ag EXCEPT !.activeToolIds = @ \cup {toolId},
                               !.activeToolStatuses = MapSet(@, toolId, status),
                               !.activeToolNames = MapSet(@, toolId, toolName),
                               !.isWaiting = FALSE,
                               !.hadToolsInTurn = TRUE]
             w1 == Send(SetAgent(w, id, ag1),
                        [type |-> "agentStatus", id |-> id, status |-> "active"])
             w2 == Send(w1, [type |-> "agentToolStart", id |-> id,
                             toolId |-> toolId, status |-> status])
         IN  IF toolName \in CODEX_PERMISSION_SENSITIVE_TOOLS
             THEN startPermissionTimer(w2, id)
             ELSE w2

\* A function_call_output handler that leaves the tool's name in its map.
CodexFunctionCallOutputKeepsName(w, id, payload) ==
    IF ~Has(payload, "call_id") THEN w
    ELSE LET toolId == payload.call_id
             ag == w.agents[id]
             existed == toolId \in ag.activeToolIds
             ag1 == [ag EXCEPT !.activeToolIds = @ \ {toolId},
                               !.activeToolStatuses = MapDelete(@, toolId)]
             ag2 == IF ag1.activeToolIds = {}
                    THEN [ag1 EXCEPT !.hadToolsInTurn = FALSE]
                    ELSE ag1
             w1 == SetAgent(w, id, ag2)
         IN  IF existed
             THEN ScheduleDone(w1, [type |-> "agentToolDone", id |-> id, toolId |-> toolId])
             ELSE w1

CodexFunctionCallOutput(w, id, payload) ==
    IF ~Has(payload, "call_id") THEN w
    ELSE LET toolId == payload.call_id
             ag == w.agents[id]
             existed == toolId \in ag.activeToolIds
             ag1 == [ag EXCEPT !.activeToolIds = @ \ {toolId},
                               !.activeToolStatuses = MapDelete(@, toolId),
                               !.activeToolNames = MapDelete(@, toolId)]
             ag2 == IF ag1.activeToolIds = {}
                    THEN [ag1 EXCEPT !.hadToolsInTurn = FALSE]
                    ELSE ag1
             w1 == SetAgent(w, id, ag2)
         IN  IF existed
             THEN ScheduleDone(w1, [type |-> "agentToolDone", id |-> id, toolId |-> toolId])
             ELSE w1

CodexAssistantMessage(w, id, payload) ==
    IF Has(payload, "phase") /\ payload.phase = "final_answer"
    THEN setWaitingStatus(w, id)
    ELSE IF ~w.agents[id].hadToolsInTurn
         THEN startWaitingTimer(w, id)
         ELSE w

processCodexTranscriptLine(w, id, record) ==
    IF record.type = "event_msg"
    THEN LET eventType == IF Has(record, "payload") THEN record.payload.type ELSE "none"
         IN  IF eventType \in {"user_message", "turn_aborted"} THEN NewTurn(w, id)
             ELSE IF eventType = "task_complete" THEN setWaitingStatus(w, id)
             ELSE w
    ELSE IF record.type # "response_item" THEN w
    ELSE IF ~Has(record, "payload") THEN w
    ELSE LET payload == record.payload
         IN  IF payload.type = "function_call" THEN CodexFunctionCall(w, id, payload)
             ELSE IF payload.type = "function_call_output"
                  THEN CodexFunctionCallOutput(w, id, payload)
             ELSE IF payload.type = "message" /\ Has(payload, "role")
                     /\ payload.role = "assistant"
                  THEN CodexAssistantMessage(w, id, payload)
             ELSE w

\* ---- Dialect A (claude) ----
\* The tool_use loop of an assistant record: blocks i..Len, in order.
RECURSIVE StartToolUses(_, _, _, _, _)
StartToolUses(w, id, blocks, i, hasNonExemptTool) ==
    IF i > Len(blocks)
    THEN [w |-> w, hasNonExemptTool |-> hasNonExemptTool]
    ELSE LET block == blocks[i]
         IN  IF block.type = "tool_use" /\ Has(block, "id")
             THEN LET toolName == IF Has(block, "name") THEN block.name ELSE ""
                      status == formatToolStatus(toolName)
                      ag == w.agents[id]
                      ag1 == [ag EXCEPT !.activeToolIds = @ \cup {block.id},
                                        !.activeToolStatuses = MapSet(@, block.id, status),
                                        !.activeToolNames = MapSet(@, block.id, toolName)]
                      w1 == Send(SetAgent(w, id, ag1),
                                 [type |-> "agentToolStart", id |-> id,
                                  toolId |-> block.id, status |-> status])
                  IN  StartToolUses(w1, id, blocks, i + 1,
                                    hasNonExemptTool \/ toolName \notin PERMISSION_EXEMPT_TOOLS)
             ELSE StartToolUses(w, id, blocks, i + 1, hasNonExemptTool)

\* The tool_use branch with the status event sent after the loop.
AssistantToolUseStatusLast(w, id, blocks) ==
    LET w1 == cancelWaitingTimer(w, id)
        ag1 == [w1.agents[id] EXCEPT !.isWaiting = FALSE, !.hadToolsInTurn = TRUE]
        r == StartToolUses(SetAgent(w1, id, ag1), id, blocks, 1, FALSE)
        w2 == Send(r.w, [type |-> "agentStatus", id |-> id, status |-> "active"])
    IN  IF r.hasNonExemptTool THEN startPermissionTimer(w2, id) ELSE w2

\* The tool_use branch arming the permission timer whatever the tools are.
AssistantToolUseAlwaysArms(w, id, blocks) ==
    LET w1 == cancelWaitingTimer(w, id)
        ag1 == [w1.agents[id] EXCEPT !.isWaiting = FALSE, !.hadToolsInTurn = TRUE]
        w2 == Send(SetAgent(w1, id, ag1),
                   [type |-> "agentStatus", id |-> id, status |-> "active"])
        r == StartToolUses(w2, id, blocks, 1, FALSE)
    IN  startPermissionTimer(r.w, id)

AssistantToolUse(w, id, blocks) ==
    LET w1 == cancelWaitingTimer(w, id)
        ag1 == [w1.agents[id] EXCEPT !.isWaiting = FALSE, !.hadToolsInTurn = TRUE]
        w2 == Send(SetAgent(w1, id, ag1),
                   [type |-> "agentStatus", id |-> id, status |-> "active"])
        r == StartToolUses(w2, id, blocks, 1, FALSE)
    IN  IF r.hasNonExemptTool THEN startPermissionTimer(r.w, id) ELSE r.w

\* An assistant record whose text restarts the waiting timer whatever the flag.
AssistantRecordIgnoresFlag(w, id, blocks) ==
    IF \E i \in 1..Len(blocks) : blocks[i].type = "tool_use"
    THEN AssistantToolUse(w, id, blocks)
    ELSE IF \E i \in 1..Len(blocks) : blocks[i].type = "text"
         THEN startWaitingTimer(w, id)
         ELSE w

AssistantRecord(w, id, blocks) ==
    IF \E i \in 1..Len(blocks) : blocks[i].type = "tool_use"
    THEN AssistantToolUse(w, id, blocks)
    ELSE IF (\E i \in 1..Len(blocks) : blocks[i].type = "text")
            /\ ~w.agents[id].hadToolsInTurn
         THEN startWaitingTimer(w, id)
         ELSE w

\* The tool_result loop of a user record: blocks i..Len, in order.
RECURSIVE CloseToolResults(_, _, _, _)
CloseToolResults(w, id, blocks, i) ==
    IF i > Len(blocks) THEN w
    ELSE LET block == blocks[i]
         IN  IF block.type = "tool_result" /\ Has(block, "tool_use_id")
             THEN LET completedToolId == block.tool_use_id
                      ag == w.agents[id]
                      wasTask == MapGet(ag.activeToolNames, completedToolId, "") = "Task"
                      ag1 == IF wasTask
                             THEN [ag EXCEPT
                                     !.activeSubagentToolIds = MapDelete(@, completedToolId),
                                     !.activeSubagentToolNames = MapDelete(@, completedToolId)]
                             ELSE ag
                      w1 == IF wasTask
                            THEN Send(SetAgent(w, id, ag1),
                                      [type |-> "subagentClear", id |-> id,
                                       parentToolId |-> completedToolId])
                            ELSE w
                      ag2 == [ag1 EXCEPT
                                !.activeToolIds = @ \ {completedToolId},
                                !.activeToolStatuses = MapDelete(@, completedToolId),
                                !.activeToolNames = MapDelete(@, completedToolId)]
                      w2 == ScheduleDone(SetAgent(w1, id, ag2),
                                         [type |-> "agentToolDone", id |-> id,
                                          toolId |-> completedToolId])
                  IN  CloseToolResults(w2, id, blocks, i + 1)
             ELSE CloseToolResults(w, id, blocks, i + 1)

UserToolResults(w, id, blocks) ==
    LET w1 == CloseToolResults(w, id, blocks, 1)
        ag == w1.agents[id]
    IN  IF ag.activeToolIds = {}
        THEN SetAgent(w1, id, [ag EXCEPT !.hadToolsInTurn = FALSE])
        ELSE w1

UserRecord(w, id, record) ==
    IF Has(record, "content")
    THEN IF \E i \in 1..Len(record.content) : record.content[i].type = "tool_result"
         THEN UserToolResults(w, id, record.content)
         ELSE NewTurn(w, id)
    ELSE IF Has(record, "text") /\ record.text # "blank"
         THEN NewTurn(w, id)
         ELSE w

\* The sub-tool loops of a progress record nested under parentToolId.
RECURSIVE StartSubTools(_, _, _, _, _, _)
StartSubTools(w, id, parentToolId, content, i, hasNonExemptSubTool) ==
    IF i > Len(content)
    THEN [w |-> w, hasNonExemptSubTool |-> hasNonExemptSubTool]
    ELSE LET block == content[i]
         IN  IF block.type = "tool_use" /\ Has(block, "id")
             THEN LET toolName == IF Has(block, "name") THEN block.name ELSE ""
                      status == formatToolStatus(toolName)
                      ag == w.agents[id]
                      subTools == MapGet(ag.activeSubagentToolIds, parentToolId, {})
                      subNames == MapGet(ag.activeSubagentToolNames, parentToolId, EmptyMap)
                      ag1 == [ag EXCEPT
                                !.activeSubagentToolIds =
                                    MapSet(@, parentToolId, subTools \cup {block.id}),
                                !.activeSubagentToolNames =
                                    MapSet(@, parentToolId, MapSet(subNames, block.id, toolName))]
                      w1 == Send(SetAgent(w, id, ag1),
                                 [type |-> "subagentToolStart", id |-> id,
                                  parentToolId |-> parentToolId,
                                  toolId |-> block.id, status |-> status])
                  IN  StartSubTools(w1, id, parentToolId, content, i + 1,
                                    hasNonExemptSubTool
                                        \/ toolName \notin PERMISSION_EXEMPT_TOOLS)
             ELSE StartSubTools(w, id, parentToolId, content, i + 1, hasNonExemptSubTool)

RECURSIVE CloseSubTools(_, _, _, _, _)
CloseSubTools(w, id, parentToolId, content, i) ==
    IF i > Len(content) THEN w
    ELSE LET block == content[i]
         IN  IF block.type = "tool_result" /\ Has(block, "tool_use_id")
             THEN LET ag == w.agents[id]
                      ag1 == [ag EXCEPT
                                !.activeSubagentToolIds =
                                    IF parentToolId \in DOMAIN @
                                    THEN MapSet(@, parentToolId,
                                                @[parentToolId] \ {block.tool_use_id})
                                    ELSE @,
                                !.activeSubagentToolNames =
                                    IF parentToolId \in DOMAIN @
                                    THEN MapSet(@, parentToolId,
                                                MapDelete(@[parentToolId], block.tool_use_id))
                                    ELSE @]
                      w1 == ScheduleDone(SetAgent(w, id, ag1),
                                         [type |-> "subagentToolDone", id |-> id,
                                          parentToolId |-> parentToolId,
                                          toolId |-> block.tool_use_id])
                  IN  CloseSubTools(w1, id, parentToolId, content, i + 1)
             ELSE CloseSubTools(w, id, parentToolId, content, i + 1)

StillHasNonExemptSubTool(ag) ==
    \E p \in DOMAIN ag.activeSubagentToolNames :
        \E s \in DOMAIN ag.activeSubagentToolNames[p] :
            ag.activeSubagentToolNames[p][s] \notin PERMISSION_EXEMPT_TOOLS

processProgressRecord(w, id, record) ==
    IF id \notin DOMAIN w.agents THEN w
    ELSE IF ~Has(record, "parentToolUseID") THEN w
    ELSE IF ~Has(record, "data") THEN w
    ELSE LET parentToolId == record.parentToolUseID
             data == record.data
             ag == w.agents[id]
         IN  IF Has(data, "type") /\ data.type \in {"bash_progress", "mcp_progress"}
             THEN IF parentToolId \in ag.activeToolIds
                  THEN startPermissionTimer(w, id)
                  ELSE w
             ELSE IF MapGet(ag.activeToolNames, parentToolId, "") # "Task" THEN w
             ELSE IF ~Has(data, "message") THEN w
             ELSE IF ~Has(data.message, "content") THEN w
             ELSE LET content == data.message.content
                  IN  IF data.message.type = "assistant"
                      THEN LET r == StartSubTools(w, id, parentToolId, content, 1, FALSE)
                           IN  IF r.hasNonExemptSubTool
                               THEN startPermissionTimer(r.w, id)
                               ELSE r.w
                      ELSE IF data.message.type = "user"
                      THEN LET w1 == CloseSubTools(w, id, parentToolId, content, 1)
                           IN  IF StillHasNonExemptSubTool(w1.agents[id])
                               THEN startPermissionTimer(w1, id)
                               ELSE w1
                      ELSE w

\* JSON.parse of a line of decoded characters.  A line is the text of one JSON
\* record (a single "json" character standing for the record's whole text),
\* optionally surrounded by white space; anything else does not parse.
IsSpace(c) == c.b = "sp"

RECURSIVE TrimLeft(_)
TrimLeft(line) ==
    IF line # <<>> /\ IsSpace(Head(line)) THEN TrimLeft(Tail(line)) ELSE line

RECURSIVE TrimRight(_)
TrimRight(line) ==
    IF line # <<>> /\ IsSpace(line[Len(line)])
    THEN TrimRight(SubSeq(line, 1, Len(line) - 1))
    ELSE line

Trim(line) == TrimRight(TrimLeft(line))

Malformed == [type |-> "malformed"]

JSONParse(line) ==
    LET t == Trim(line)
    IN  IF Len(t) = 1 /\ t[1].b = "json" THEN t[1].rec ELSE Malformed

\* A parser that takes a line that is not JSON for the end of the turn.
processTranscriptLineMalformedEndsTurn(w0, id, line) ==
    LET w == [w0 EXCEPT !.parsed = Append(@, line)]
    IN  IF id \notin DOMAIN w.agents THEN w
        ELSE LET record == JSONParse(line)
                 ag == w.agents[id]
             IN  IF record = Malformed THEN setWaitingStatus(w, id)
                 ELSE IF ~Has(record, "type") THEN w
                 ELSE IF ag.provider = "codex"
                      THEN processCodexTranscriptLine(w, id, record)
                 ELSE IF record.type = "assistant" /\ Has(record, "content")
                      THEN AssistantRecord(w, id, record.content)
                 ELSE IF record.type = "progress"
                      THEN processProgressRecord(w, id, record)
                 ELSE IF record.type = "user"
                      THEN UserRecord(w, id, record)
                 ELSE IF record.type = "system" /\ Has(record, "subtype")
                         /\ record.subtype = "turn_duration"
                      THEN setWaitingStatus(w, id)
                 ELSE w

\* JSON.parse throwing, JSON that is not an object with a type, and a record
\* no branch matches all leave the world as it is.
processTranscriptLine(w0, id, line) ==
    LET w == [w0 EXCEPT !.parsed = Append(@, line)]
    IN  IF id \notin DOMAIN w.agents THEN w
        ELSE LET record == JSONParse(line)
                 ag == w.agents[id]
             IN  IF record = Malformed \/ ~Has(record, "type") THEN w
                 ELSE IF ag.provider = "codex"
                      THEN processCodexTranscriptLine(w, id, record)
                 ELSE IF record.type = "assistant" /\ Has(record, "content")
                      THEN AssistantRecord(w, id, record.content)
                 ELSE IF record.type = "progress"
                      THEN processProgressRecord(w, id, record)
                 ELSE IF record.type = "user"
                      THEN UserRecord(w, id, record)
                 ELSE IF record.type = "system" /\ Has(record, "subtype")
                         /\ record.subtype = "turn_duration"
                      THEN setWaitingStatus(w, id)
                 ELSE w
\* ------------------------------------------------------------ timer fires
\* The waiting timer's callback: the slot empties; if the agent is still
\* present the turn is treated as ended.
waitingTimerFires(w, id) ==
    LET w1 == [w EXCEPT !.waitingTimers = @ \ {id}]
    IN  IF id \in DOMAIN w1.agents THEN setWaitingStatus(w1, id) ELSE w1

\* The permission timer's callback: the slot empties; the notice is sent once.
permissionTimerFires(w, id) ==
    LET w1 == [w EXCEPT !.permissionTimers = @ \ {id}]
    IN  IF id \in DOMAIN w1.agents /\ ~w1.agents[id].permissionSent
        THEN Send(SetAgent(w1, id, [w1.agents[id] EXCEPT !.permissionSent = TRUE]),
                  [type |-> "agentToolPermission", id |-> id])
        ELSE w1

\* The oldest pending setTimeout(..., 300) callback runs: it only sends.
doneTimerFires(w) ==
    Send([w EXCEPT !.doneTimers = Tail(@)], Head(w.doneTimers))

\* ------------------------------------------------------------ file tailing
\* Bytes and characters are records [b |-> kind]: "nl" is the newline, "sp" a
\* white-space character, "x" any other one-byte character, "json" the whole
\* text of one JSON record.  "lead" and "cont" are the two bytes of one
\* two-byte UTF-8 character, "ch2" that character once decoded, "fffd" the
\* replacement character the decoder emits for a byte it cannot decode.
NL == [b |-> "nl"]
SP == [b |-> "sp"]
FFFD == [b |-> "fffd"]
CH2 == [b |-> "ch2"]

\* buf.toString('utf-8') of one buffer.
RECURSIVE Utf8ToString(_)
Utf8ToString(buf) ==
    IF buf = <<>> THEN <<>>
    ELSE IF Head(buf).b = "lead"
         THEN IF Len(buf) >= 2 /\ buf[2].b = "cont"
              THEN <<CH2>> \o Utf8ToString(SubSeq(buf, 3, Len(buf)))
              ELSE <<FFFD>> \o Utf8ToString(Tail(buf))
         ELSE IF Head(buf).b = "cont"
              THEN <<FFFD>> \o Utf8ToString(Tail(buf))
              ELSE <<Head(buf)>> \o Utf8ToString(Tail(buf))

\* text.split('\n'): always at least one element, the last one is what
\* follows the last newline.
RECURSIVE SplitLines(_)
SplitLines(text) ==
    IF \A i \in 1..Len(text) : text[i].b # "nl" THEN <<text>>
    ELSE LET k == CHOOSE i \in 1..Len(text) :
                      text[i].b = "nl" /\ \A j \in 1..(i - 1) : text[j].b # "nl"
         IN  <<SubSeq(text, 1, k - 1)>> \o SplitLines(SubSeq(text, k + 1, Len(text)))

\* !line.trim()
IsBlank(line) == Trim(line) = <<>>

RECURSIVE DispatchLines(_, _, _, _)
DispatchLines(w, id, lines, i) ==
    IF i > Len(lines) THEN w
    ELSE IF IsBlank(lines[i]) THEN DispatchLines(w, id, lines, i + 1)
    ELSE DispatchLines(processTranscriptLine(w, id, lines[i]), id, lines, i + 1)

\* The hasLines block leaving the waiting timer running.
CancelOnNewLinesKeepsWaiting(w, id) ==
    LET w1 == cancelPermissionTimer(Send(w, [type |-> "agentHeartbeat", id |-> id]), id)
    IN  IF w1.agents[id].permissionSent
        THEN Send(SetAgent(w1, id, [w1.agents[id] EXCEPT !.permissionSent = FALSE]),
                  [type |-> "agentToolPermissionClear", id |-> id])
        ELSE w1

\* What the read routine does between splitting the text and dispatching the
\* first line when the read holds a non-blank complete line.
CancelOnNewLines(w, id) ==
    LET w1 == cancelPermissionTimer(
                  cancelWaitingTimer(Send(w, [type |-> "agentHeartbeat", id |-> id]), id),
                  id)
    IN  IF w1.agents[id].permissionSent
        THEN Send(SetAgent(w1, id, [w1.agents[id] EXCEPT !.permissionSent = FALSE]),
                  [type |-> "agentToolPermissionClear", id |-> id])
        ELSE w1

\* The read routine once the file is known to have grown: buf is what
\* readSync returns for the bytes between the agent's offset and the size.

ReadAndDispatch(w, id, buf) ==
    LET agent == w.agents[id]
        text == agent.lineBuffer \o Utf8ToString(buf)
        split == SplitLines(text)
        lines == SubSeq(split, 1, Len(split) - 1)
        ag1 == [agent EXCEPT !.fileOffset = w.fileSize[agent.jsonlFile],
                             !.lineBuffer = split[Len(split)]]
        hasLines == \E i \in 1..Len(lines) : ~IsBlank(lines[i])
        w1 == [SetAgent(w, id, ag1) EXCEPT
                 !.reads = Append(@, <<id, agent.jsonlFile, agent.fileOffset,
                                       w.fileSize[agent.jsonlFile]>>)]
        w2 == IF hasLines THEN CancelOnNewLines(w1, id) ELSE w1
    IN  DispatchLines(w2, id, lines, 1)

\* A read routine that cancels the timers before it looks at the file size.
readNewLinesCancelFirst(w, id, buf, readFails) ==
    IF id \notin DOMAIN w.agents THEN w
    ELSE LET agent == w.agents[id]
             c == cancelPermissionTimer(cancelWaitingTimer(w, id), id)
         IN  IF agent.jsonlFile \notin DOMAIN w.fileSize THEN c
             ELSE IF w.fileSize[agent.jsonlFile] <= agent.fileOffset THEN c
             ELSE IF readFails THEN c
             ELSE ReadAndDispatch(c, id, buf)

\* A read routine that moves the offset before it opens the file.
readNewLinesOffsetFirst(w, id, buf, readFails) ==
    IF id \notin DOMAIN w.agents THEN w
    ELSE LET agent == w.agents[id]
         IN  IF agent.jsonlFile \notin DOMAIN w.fileSize THEN w
             ELSE IF w.fileSize[agent.jsonlFile] <= agent.fileOffset THEN w
             ELSE IF readFails
                  THEN SetAgent(w, id, [agent EXCEPT !.fileOffset = w.fileSize[agent.jsonlFile]])
             ELSE ReadAndDispatch(w, id, buf)

\* One run of the read routine.  The file system is w.fileSize (the size of
\* every existing file; statSync throws for a missing one); readFails is
\* openSync or readSync throwing after statSync succeeded.
readNewLines(w, id, buf, readFails) ==
    IF id \notin DOMAIN w.agents THEN w
    ELSE LET agent == w.agents[id]
         IN  IF agent.jsonlFile \notin DOMAIN w.fileSize THEN w
             ELSE IF w.fileSize[agent.jsonlFile] <= agent.fileOffset THEN w
             ELSE IF readFails THEN w
             ELSE ReadAndDispatch(w, id, buf)

\* fs.watch may throw (the catch leaves fileWatchers alone); the poll interval
\* is always installed.
startFileWatching(w, id, watchFails) ==
    LET w1 == IF watchFails THEN w ELSE [w EXCEPT !.fileWatchers = @ \cup {id}]
    IN  [w1 EXCEPT !.pollingTimers = @ \cup {id}]
\* -------------------------------------------------------------------- state
VARIABLES
    agents,            \* Map<number, AgentState>
    waitingTimers,     \* ids with a pending waiting timer
    permissionTimers,  \* ids with a pending permission timer
    doneTimers,        \* pending 300 ms callbacks, oldest first
    fileWatchers,      \* ids with an fs.watch handle in the map
    pollingTimers,     \* ids with a poll interval in the map
    jsonlPollTimers,   \* id -> which poll for the expected transcript is pending
    projectScanState,  \* the running project scan, if any
    knownJsonlFiles,   \* Set<string>
    activeAgentId,     \* id or NoAgent
    nextAgentId,
    fileSize,          \* the file system: size of every existing transcript
    fileData,          \* contents of the files (byte-level specification only)
    sent,              \* events sent by the last handler, in order
    lastOp,            \* name of the last handler
    announced,         \* <<agent, tool>> whose last start/done event is a start
    delivered,         \* lines handed to the parser so far (byte-level only)
    roundRobinCursor,  \* index into the sorted ids of the next round_robin prompt
    promptTimers,      \* pending initial-prompt timeouts [id, prompt], oldest first
    written            \* <<id, text>> written to agents' processes by the last handler

vars == <<agents, waitingTimers, permissionTimers, doneTimers, fileWatchers,
          pollingTimers, jsonlPollTimers, projectScanState, knownJsonlFiles, activeAgentId, nextAgentId, fileSize,
          fileData, sent, lastOp, announced, delivered, roundRobinCursor, promptTimers,
          written>>

\* The world a handler starts in: the current state, nothing sent yet.  The
\* fields sent, parsed, timerStarts and reads list what the running handler
\* sends, hands to the parser, which timers it starts and which byte ranges
\* <<agent, file, from, to>> it reads.
World ==
    [agents |-> agents, waitingTimers |-> waitingTimers,
     permissionTimers |-> permissionTimers, doneTimers |-> doneTimers,
     fileWatchers |-> fileWatchers, pollingTimers |-> pollingTimers,
     jsonlPollTimers |-> jsonlPollTimers, projectScanState |-> projectScanState,
     knownJsonlFiles |-> knownJsonlFiles, activeAgentId |-> activeAgentId,
     nextAgentId |-> nextAgentId, fileSize |-> fileSize,
     roundRobinCursor |-> roundRobinCursor, promptTimers |-> promptTimers,
     sent |-> <<>>, parsed |-> <<>>, timerStarts |-> <<>>, reads |-> <<>>,
     written |-> <<>>]

RECURSIVE Announce(_, _)
Announce(ann, events) ==
    IF events = <<>> THEN ann
    ELSE LET e == Head(events)
         IN  Announce(IF e.type = "agentToolStart" THEN ann \cup {<<e.id, e.toolId>>}
                      ELSE IF e.type = "agentToolDone" THEN ann \ {<<e.id, e.toolId>>}
                      ELSE ann,
                      Tail(events))

\* The state a handler leaves behind.
CommitState(w) ==
    /\ agents' = w.agents
    /\ waitingTimers' = w.waitingTimers
    /\ permissionTimers' = w.permissionTimers
    /\ doneTimers' = w.doneTimers
    /\ fileWatchers' = w.fileWatchers
    /\ pollingTimers' = w.pollingTimers
    /\ jsonlPollTimers' = w.jsonlPollTimers
    /\ projectScanState' = w.projectScanState
    /\ knownJsonlFiles' = w.knownJsonlFiles
    /\ activeAgentId' = w.activeAgentId
    /\ nextAgentId' = w.nextAgentId
    /\ fileSize' = w.fileSize
    /\ roundRobinCursor' = w.roundRobinCursor
    /\ promptTimers' = w.promptTimers

Commit(w, op) ==
    /\ CommitState(w)
    /\ sent' = w.sent
    /\ written' = w.written
    /\ lastOp' = op
    /\ announced' = Announce(announced, w.sent)

\* Transcript paths.  "p..." are files of the claude project directory, "c..."
\* files below the codex sessions directory, "pending..." the placeholder
\* path a codex agent is created with (also below the codex sessions
\* directory), which no CLI ever writes.
ClaudePaths == {"p1", "p2"}
CodexPaths == {"c1"}
PendingPath(id) == "pending" \o ToString(id)
IsPendingPath(filePath) ==
    \E id \in 1..(MaxAgents + MaxPromptAgents + 1) : filePath = PendingPath(id)

\* filePath.includes(CODEX_SESSIONS_MARKER)
detectProviderFromJsonlFile(filePath) ==
    IF filePath \in CodexPaths \/ IsPendingPath(filePath) THEN "codex" ELSE "claude"

\* A freshly created AgentState.
NewAgent(provider, projectDir, jsonlFile, terminalRef) ==
    [provider |-> provider, projectDir |-> projectDir, jsonlFile |-> jsonlFile,
     terminalRef |-> terminalRef,
     fileOffset |-> 0, lineBuffer |-> <<>>,
     activeToolIds |-> {}, activeToolStatuses |-> EmptyMap,
     activeToolNames |-> EmptyMap, activeSubagentToolIds |-> EmptyMap,
     activeSubagentToolNames |-> EmptyMap,
     isWaiting |-> FALSE, permissionSent |-> FALSE, hadToolsInTurn |-> FALSE]

\* getProjectDirPath: the directory the provider's CLI writes transcripts to.
ProjectDirFor(provider) == IF provider = "codex" THEN "codexSessions" ELSE "claudeProject"

ProjectDirOf(filePath) == ProjectDirFor(detectProviderFromJsonlFile(filePath))

NoScan == [running |-> FALSE, provider |-> "none", projectDir |-> "none"]

\* The terminal launchNewTerminal creates for agent id.
TerminalOf(id) == "term" \o ToString(id)
\* ------------------------------------------------------- transcript records
ToolUse(toolId, name) == [type |-> "tool_use", id |-> toolId, name |-> name]
ToolResult(toolId) == [type |-> "tool_result", tool_use_id |-> toolId]
TextBlock == [type |-> "text"]
Assistant(blocks) == [type |-> "assistant", content |-> blocks]
User(blocks) == [type |-> "user", content |-> blocks]
UserText == [type |-> "user", text |-> "prompt"]
TurnDuration == [type |-> "system", subtype |-> "turn_duration"]
Progress(parent, data) == [type |-> "progress", parentToolUseID |-> parent, data |-> data]
AgentProgress(msgType, blocks) ==
    [type |-> "agent_progress", message |-> [type |-> msgType, content |-> blocks]]
FunctionCall(callId, name) ==
    [type |-> "response_item",
     payload |-> [type |-> "function_call", call_id |-> callId, name |-> name]]
FunctionCallOutput(callId) ==
    [type |-> "response_item",
     payload |-> [type |-> "function_call_output", call_id |-> callId]]
EventMsg(eventType) == [type |-> "event_msg", payload |-> [type |-> eventType]]
AssistantMessage(phase) ==
    [type |-> "response_item",
     payload |-> [type |-> "message", role |-> "assistant", phase |-> phase]]

ClaudeToolNames == {"Task", "Bash"}
CodexToolNames == {"exec_command", "apply_patch"}

\* Records an agent of the claude provider can find in its transcript.
ClaudeCore ==
    { Assistant(<<TextBlock>>), Assistant(<<ToolUse("t1", "Bash")>>),
      User(<<ToolResult("t1")>>), UserText, TurnDuration }

ClaudeRecords ==
    ClaudeCore
    \cup { Assistant(<<ToolUse(t, n)>>) : t \in ToolIds, n \in ClaudeToolNames }
    \cup { Assistant(<<[type |-> "tool_use", name |-> "Bash"]>>),
           Assistant(<<TextBlock, ToolUse("t1", "Bash")>>),
           Assistant(<<ToolUse("t1", "Task"), ToolUse("t2", "Bash")>>),
           Assistant(<<ToolUse("t1", "Bash"), ToolUse("t2", "Bash")>>),
           [type |-> "assistant"] }
    \cup { User(<<ToolResult(t)>>) : t \in ToolIds }
    \cup { User(<<ToolResult("t1"), ToolResult("t2")>>),
           User(<<ToolResult("t1"), ToolResult("t1")>>),
           User(<<[type |-> "tool_result"]>>),
           User(<<TextBlock>>),
           [type |-> "user", text |-> "blank"],
           [type |-> "system", subtype |-> "other"] }
    \cup { Progress(t, [type |-> "bash_progress"]) : t \in ToolIds }
    \cup { Progress(t, AgentProgress("assistant", <<ToolUse(st, n)>>)) :
               t \in ToolIds, st \in SubToolIds, n \in ClaudeToolNames }
    \cup { Progress(t, AgentProgress("user", <<ToolResult(st)>>)) :
               t \in ToolIds, st \in SubToolIds }
    \cup { [type |-> "progress", data |-> [type |-> "bash_progress"]] }

\* Records an agent of the codex provider can find in its transcript.
CodexCore ==
    { AssistantMessage("commentary"), FunctionCall("t1", "exec_command"),
      FunctionCallOutput("t1"), EventMsg("user_message"), EventMsg("task_complete") }

CodexRecords ==
    CodexCore
    \cup { FunctionCall(t, n) : t \in ToolIds, n \in CodexToolNames }
    \cup { FunctionCallOutput(t) : t \in ToolIds }
    \cup { AssistantMessage("final_answer"), EventMsg("turn_aborted"),
           EventMsg("token_count"),
           [type |-> "response_item", payload |-> [type |-> "function_call", name |-> "exec_command"]],
           [type |-> "response_item", payload |-> [type |-> "function_call_output"]],
           [type |-> "response_item",
            payload |-> [type |-> "message", role |-> "user", phase |-> "commentary"]],
           [type |-> "session_meta"] }

RecordsOf(provider) == IF provider = "codex" THEN CodexRecords ELSE ClaudeRecords
CoreOf(provider) == IF provider = "codex" THEN CodexCore ELSE ClaudeCore

\* The bytes of one complete line holding record r.
LineOf(r) == <<[b |-> "json", rec |-> r]>>

\* What a transcript can grow by between two reads: one complete line, a line
\* that is not JSON, or two complete lines.
Batches(provider) ==
    { <<LineOf(r)>> : r \in RecordsOf(provider) }
    \cup { <<(<<[b |-> "x"]>>)>> }
    \cup { <<LineOf(r1), LineOf(r2)>> : r1 \in CoreOf(provider), r2 \in CoreOf(provider) }

RECURSIVE BytesOf(_)
BytesOf(lines) ==
    IF lines = <<>> THEN <<>> ELSE Head(lines) \o <<NL>> \o BytesOf(Tail(lines))

\* ------------------------------------------------------- agent registry
\* What a handler finds on disk and how its system calls end:
\*   io.disk       the bytes of every existing file,
\*   io.watchFails fs.watch throws, io.readFails openSync/readSync throws.
\* The bytes readSync returns for agent id: those between its offset and the
\* size of its file.
BufferFor(w, id, io) ==
    LET agent == w.agents[id]
        f == agent.jsonlFile
    IN  IF f \in DOMAIN w.fileSize /\ w.fileSize[f] > agent.fileOffset
        THEN SubSeq(io.disk[f], agent.fileOffset + 1, w.fileSize[f])
        ELSE <<>>

WatchAndRead(w, id, io) ==
    LET w1 == startFileWatching(w, id, io.watchFails)
    IN  readNewLines(w1, id, BufferFor(w1, id, io), io.readFails)

StopWatching(w, id) ==
    [w EXCEPT !.fileWatchers = @ \ {id}, !.pollingTimers = @ \ {id}]

\* A reassignment that keeps the offset of the old file.
reassignKeepsOffset(w, id, newFilePath, io) ==
    IF id \notin DOMAIN w.agents THEN w
    ELSE LET w1 == cancelPermissionTimer(cancelWaitingTimer(StopWatching(w, id), id), id)
             w2 == clearAgentActivity(w1, id)
             ag == [w2.agents[id] EXCEPT
                      !.provider = detectProviderFromJsonlFile(newFilePath),
                      !.jsonlFile = newFilePath,
                      !.lineBuffer = <<>>]
         IN  WatchAndRead(SetAgent(w2, id, ag), id, io)

\* A reassignment that keeps the partial line buffered from the old file.
reassignKeepsLineBuffer(w, id, newFilePath, io) ==
    IF id \notin DOMAIN w.agents THEN w
    ELSE LET w1 == cancelPermissionTimer(cancelWaitingTimer(StopWatching(w, id), id), id)
             w2 == clearAgentActivity(w1, id)
             ag == [w2.agents[id] EXCEPT
                      !.provider = detectProviderFromJsonlFile(newFilePath),
                      !.jsonlFile = newFilePath,
                      !.fileOffset = 0]
         IN  WatchAndRead(SetAgent(w2, id, ag), id, io)

reassignAgentToFile(w, id, newFilePath, io) ==
    IF id \notin DOMAIN w.agents THEN w
    ELSE LET w1 == cancelPermissionTimer(cancelWaitingTimer(StopWatching(w, id), id), id)
             w2 == clearAgentActivity(w1, id)
             ag == [w2.agents[id] EXCEPT
                      !.provider = detectProviderFromJsonlFile(newFilePath),
                      !.jsonlFile = newFilePath,
                      !.fileOffset = 0,
                      !.lineBuffer = <<>>]
         IN  WatchAndRead(SetAgent(w2, id, ag), id, io)

\* The first line of a codex transcript names the workspace it was started
\* in.  Every transcript of the model belongs to the workspace the scan is
\* given, so the test fails only while the file holds no first line yet.
isCodexSessionForWorkspace(w, jsonlFile) == w.fileSize[jsonlFile] > 0

listProjectJsonlFiles(w, projectDir, provider) ==
    {f \in DOMAIN w.fileSize :
        /\ ProjectDirOf(f) = projectDir
        /\ ProjectDirFor(provider) = projectDir
        /\ provider = "codex" => isCodexSessionForWorkspace(w, f)}

\* newest is the file getNewestJsonlFile picks among the candidates (the one
\* with the largest mtime, which the file sizes do not determine).
resyncAgent(w, id, newest, io) ==
    IF id \notin DOMAIN w.agents
    THEN Send(w, [type |-> "agentResynced", id |-> id, ok |-> FALSE])
    ELSE LET w1 == cancelPermissionTimer(cancelWaitingTimer(StopWatching(w, id), id), id)
             agent == w1.agents[id]
             missing == agent.jsonlFile \notin DOMAIN w1.fileSize
             candidates == listProjectJsonlFiles(w1, agent.projectDir, agent.provider)
             ag == [agent EXCEPT !.provider = detectProviderFromJsonlFile(newest),
                                 !.jsonlFile = newest,
                                 !.fileOffset = 0,
                                 !.lineBuffer = <<>>]
             w2 == IF missing
                   THEN [SetAgent(w1, id, ag) EXCEPT !.knownJsonlFiles = @ \cup {newest}]
                   ELSE w1
             w3 == WatchAndRead(w2, id, io)
         IN  IF missing /\ candidates = {}
             THEN Send(w1, [type |-> "agentResynced", id |-> id, ok |-> FALSE])
             ELSE Send(Send(w3, [type |-> "agentDiagnostics", id |-> id]),
                       [type |-> "agentResynced", id |-> id, ok |-> TRUE])

\* An adoption that gives the new agent the smallest id not in the registry.
adoptTerminalReusesFreeId(w, terminal, jsonlFile, projectDir, provider, io) ==
    LET id == CHOOSE i \in 1..w.nextAgentId :
                  i \notin DOMAIN w.agents /\ \A j \in 1..(i - 1) : j \in DOMAIN w.agents
        w1 == [SetAgent(w, id, NewAgent(provider, projectDir, jsonlFile, terminal))
                  EXCEPT !.nextAgentId = IF id = @ THEN id + 1 ELSE @, !.activeAgentId = id]
        w2 == Send(w1, [type |-> "agentCreated", id |-> id])
    IN  WatchAndRead(w2, id, io)

adoptTerminalForFile(w, terminal, jsonlFile, projectDir, provider, io) ==
    LET id == w.nextAgentId
        w1 == [SetAgent(w, id, NewAgent(provider, projectDir, jsonlFile, terminal))
                  EXCEPT !.nextAgentId = id + 1, !.activeAgentId = id]
        w2 == Send(w1, [type |-> "agentCreated", id |-> id])
    IN  WatchAndRead(w2, id, io)

\* The body of the scan's loop for one listed file.  activeTerminal is
\* vscode.window.activeTerminal ("none" when there is none).
ScanFile(w, file, activeTerminal, io) ==
    IF file \in w.knownJsonlFiles THEN w
    ELSE LET w1 == [w EXCEPT !.knownJsonlFiles = @ \cup {file}]
             fileProvider == detectProviderFromJsonlFile(file)
             owned == \E a \in DOMAIN w1.agents : w1.agents[a].terminalRef = activeTerminal
         IN  IF w1.activeAgentId # NoAgent
             THEN IF w1.activeAgentId \in DOMAIN w1.agents
                     /\ w1.agents[w1.activeAgentId].provider # fileProvider
                  THEN w1
                  ELSE reassignAgentToFile(w1, w1.activeAgentId, file, io)
             ELSE IF activeTerminal = "none" \/ owned THEN w1
             ELSE adoptTerminalForFile(w1, activeTerminal, file,
                                       w1.projectScanState.projectDir, fileProvider, io)

RECURSIVE ScanFiles(_, _, _, _)
ScanFiles(w, files, activeTerminal, io) ==
    IF files = <<>> THEN w
    ELSE ScanFiles(ScanFile(w, Head(files), activeTerminal, io), Tail(files),
                   activeTerminal, io)

\* files is the listing of the scanned directory in readdir order.
scanForNewJsonlFiles(w, files, activeTerminal, io) ==
    ScanFiles(w, files, activeTerminal, io)

ensureProjectScan(w, projectDir, provider) ==
    IF w.projectScanState.running
       /\ w.projectScanState.provider = provider
       /\ w.projectScanState.projectDir = projectDir
    THEN w
    ELSE [w EXCEPT !.knownJsonlFiles = @ \cup listProjectJsonlFiles(w, projectDir, provider),
                   !.projectScanState = [running |-> TRUE, provider |-> provider,
                                         projectDir |-> projectDir]]

\* expectedFile is the path built from the fresh session id.
launchNewTerminal(w, provider, expectedFile) ==
    LET id == w.nextAgentId
        projectDir == ProjectDirFor(provider)
        w1 == IF provider = "claude"
              THEN [w EXCEPT !.knownJsonlFiles = @ \cup {expectedFile}]
              ELSE w
        w2 == [SetAgent(w1, id, NewAgent(provider, projectDir, expectedFile, TerminalOf(id)))
                  EXCEPT !.nextAgentId = id + 1, !.activeAgentId = id]
        w3 == ensureProjectScan(Send(w2, [type |-> "agentCreated", id |-> id]),
                                projectDir, provider)
    IN  IF provider = "claude"
        THEN [w3 EXCEPT !.jsonlPollTimers = MapSet(@, id, "launch")]
        ELSE w3

\* A removal that leaves the permission timer running.
removeAgentKeepsPermissionTimer(w, id) ==
    IF id \notin DOMAIN w.agents THEN w
    ELSE LET w1 == [StopWatching(w, id) EXCEPT !.jsonlPollTimers = MapDelete(@, id)]
             w2 == cancelWaitingTimer(w1, id)
         IN  [w2 EXCEPT !.agents = MapDelete(@, id)]

removeAgent(w, id) ==
    IF id \notin DOMAIN w.agents THEN w
    ELSE LET w1 == [StopWatching(w, id) EXCEPT !.jsonlPollTimers = MapDelete(@, id)]
             w2 == cancelPermissionTimer(cancelWaitingTimer(w1, id), id)
         IN  [w2 EXCEPT !.agents = MapDelete(@, id)]

\* One persisted agent whose terminal is live is put back into the registry.
\* The persisted list mirrors the registry: persistAgents runs whenever an
\* agent is created, moved to another file or removed.
RestoreOne(w, id, io) ==
    LET p == w.agents[id]
        fresh == NewAgent(p.provider, p.projectDir, p.jsonlFile, p.terminalRef)
        exists == p.jsonlFile \in DOMAIN w.fileSize
        agent == IF exists THEN [fresh EXCEPT !.fileOffset = w.fileSize[p.jsonlFile]]
                 ELSE fresh
        w1 == [SetAgent(w, id, agent) EXCEPT !.knownJsonlFiles = @ \cup {p.jsonlFile}]
    IN  IF exists THEN startFileWatching(w1, id, io.watchFails)
        ELSE IF p.provider = "claude"
             THEN [w1 EXCEPT !.jsonlPollTimers = MapSet(@, id, "restore")]
             ELSE w1

RECURSIVE RestoreFrom(_, _, _, _)
RestoreFrom(w, id, liveTerminals, io) ==
    IF id >= w.nextAgentId THEN w
    ELSE IF id \in DOMAIN w.agents /\ w.agents[id].terminalRef \in liveTerminals
         THEN RestoreFrom(RestoreOne(w, id, io), id + 1, liveTerminals, io)
         ELSE RestoreFrom(w, id + 1, liveTerminals, io)

\* The counter after a restore of the agents with the ids in restored.
AdvanceNextAgentId(next, restored) ==
    LET maxId == IF restored = {} THEN 0
                 ELSE CHOOSE id \in restored : \A other \in restored : other <= id
    IN  IF maxId >= next THEN maxId + 1 ELSE next

restoreAgents(w, liveTerminals, io) ==
    LET restored == {id \in DOMAIN w.agents : w.agents[id].terminalRef \in liveTerminals}
        w0 == RestoreFrom(w, 1, liveTerminals, io)
        w1 == [w0 EXCEPT !.nextAgentId = AdvanceNextAgentId(@, restored)]
        last == CHOOSE id \in restored : \A other \in restored : other <= id
    IN  IF restored = {} THEN w
        ELSE ensureProjectScan(w1, w1.agents[last].projectDir, w1.agents[last].provider)

\* if (agent.pendingPrompt) { ...; agent.pendingPrompt = undefined;
\* setTimeout(() => agent.terminalRef.sendText(pendingText), delay) }.  Only
\* agents launched in a terminal have the field; an empty text is undefined.
schedulePendingPrompt(w, id) ==
    IF Has(w.agents[id], "pendingPrompt") /\ w.agents[id].pendingPrompt # <<>>
    THEN [SetAgent(w, id, [w.agents[id] EXCEPT !.pendingPrompt = <<>>])
             EXCEPT !.promptTimers = Append(@, [id |-> id,
                                                prompt |-> w.agents[id].pendingPrompt])]
    ELSE w

\* A tick of the poll that waits for an agent's expected transcript.
jsonlPollTick(w, id, io) ==
    IF id \notin DOMAIN w.agents THEN w
    ELSE IF w.agents[id].jsonlFile \notin DOMAIN w.fileSize THEN w
    ELSE LET kind == w.jsonlPollTimers[id]
             w1 == [w EXCEPT !.jsonlPollTimers = MapDelete(@, id)]
             f == w.agents[id].jsonlFile
         IN  IF kind = "launch"
             THEN schedulePendingPrompt(WatchAndRead(w1, id, io), id)
             ELSE startFileWatching(
                      SetAgent(w1, id, [w1.agents[id] EXCEPT !.fileOffset = w1.fileSize[f]]),
                      id, io.watchFails)

\* -------------------------------------------------- registry specification
\* The extension host: terminals are launched, closed and focused, transcripts
\* appear and grow by whole lines, the project scan, the polls, the watchers
\* and the timers fire, and the webview asks for resyncs and restores.
\* The transcripts of this specification hold records the parser ignores in
\* their dialect (a system record that is no turn_duration, a session_meta),
\* so that the state is the registry, the watchers and the offsets; what the
\* parser does with the other records is the parser specification's matter.
RegistryRecord(filePath) ==
    IF detectProviderFromJsonlFile(filePath) = "codex"
    THEN [type |-> "session_meta"]
    ELSE [type |-> "system", subtype |-> "other"]

\* The bytes of the existing files, whole lines of two bytes each.
DiskOf ==
    [f \in DOMAIN fileSize |->
        BytesOf([i \in 1..(fileSize[f] \div 2) |-> LineOf(RegistryRecord(f))])]

IOs == {[disk |-> DiskOf, watchFails |-> FALSE, readFails |-> FALSE]}

Init ==
    /\ agents = EmptyMap
    /\ waitingTimers = {}
    /\ permissionTimers = {}
    /\ doneTimers = <<>>
    /\ fileWatchers = {}
    /\ pollingTimers = {}
    /\ jsonlPollTimers = EmptyMap
    /\ projectScanState = NoScan
    /\ knownJsonlFiles = {}
    /\ activeAgentId = NoAgent
    /\ nextAgentId = 1
    /\ fileSize = EmptyMap
    /\ fileData = EmptyMap
    /\ sent = <<>>
    /\ lastOp = "init"
    /\ announced = {}
    /\ delivered = <<>>
    /\ roundRobinCursor = 0
    /\ promptTimers = <<>>
    /\ written = <<>>

\* A handler of this specification: neither its name nor the events it sends
\* are recorded.
Step(w, op) ==
    /\ CommitState(w)
    /\ UNCHANGED <<sent, lastOp, announced, fileData, delivered, written>>

LaunchNewTerminal ==
    /\ nextAgentId <= MaxAgents
    /\ \E provider \in Providers :
          \E expectedFile \in (IF provider = "claude"
                               THEN ClaudePaths \ (DOMAIN fileSize \cup knownJsonlFiles)
                               ELSE {PendingPath(nextAgentId)}) :
              Step(launchNewTerminal(World, provider, expectedFile), "launchNewTerminal")

\* A codex transcript is listed only once it holds its first line, so it is
\* given room for a line after that.
RegistryFileLimit(f) == IF f \in CodexPaths THEN MaxCodexFile ELSE MaxRegistryFile

\* A CLI creates a transcript or appends a line to one.
TranscriptWritten ==
    /\ \E f \in ClaudePaths \cup CodexPaths :
          /\ f \in DOMAIN fileSize => fileSize[f] + 2 <= RegistryFileLimit(f)
          /\ fileSize' = MapSet(fileSize, f, IF f \in DOMAIN fileSize THEN fileSize[f] + 2 ELSE 0)
    /\ UNCHANGED <<agents, waitingTimers, permissionTimers, doneTimers, fileWatchers,
                   pollingTimers, jsonlPollTimers, projectScanState, knownJsonlFiles,
                   activeAgentId, nextAgentId, fileData, sent, lastOp, announced,
                   delivered, roundRobinCursor, promptTimers, written>>

\* The fs.watch callback or the poll interval of an agent runs the read routine.
ReadTriggered ==
    \E id \in (fileWatchers \cup pollingTimers) \cap DOMAIN agents : \E io \in IOs :
        /\ Step(readNewLines(World, id, BufferFor(World, id, io), io.readFails),
                "readNewLines")

JsonlPollTick ==
    \E id \in DOMAIN jsonlPollTimers : \E io \in IOs :
        Step(jsonlPollTick(World, id, io), "jsonlPollTick")

Orderings(S) ==
    {q \in [1..Cardinality(S) -> S] : \A i, j \in 1..Cardinality(S) : q[i] = q[j] => i = j}

ProjectScanTick ==
    /\ projectScanState.running
    /\ \E files \in Orderings(listProjectJsonlFiles(World, projectScanState.projectDir,
                                                        projectScanState.provider)) :
          \E activeTerminal \in {"none", "external"} : \E io \in IOs :
              Step(scanForNewJsonlFiles(World, files, activeTerminal, io),
                   "scanForNewJsonlFiles")


\* The webview's resyncAgent message, for a registered or an unknown id.
ResyncAgent ==
    \E id \in 1..MaxAgents : \E io \in IOs :
        LET candidates ==
                IF id \in DOMAIN agents
                THEN listProjectJsonlFiles(World, agents[id].projectDir, agents[id].provider)
                ELSE {}
        IN  \E newest \in (IF candidates = {} THEN {"none"} ELSE candidates) :
                Step(resyncAgent(World, id, newest, io), "resyncAgent")

\* The webview's focusAgent message.
FocusAgent ==
    \E id \in DOMAIN agents :
        /\ activeAgentId # id
        /\ Step(Send([World EXCEPT !.activeAgentId = id],
                     [type |-> "agentSelected", id |-> id]), "focusAgent")

\* onDidChangeActiveTerminal for a terminal no agent owns, or for none.
ActiveTerminalChanged ==
    /\ activeAgentId # NoAgent
    /\ Step([World EXCEPT !.activeAgentId = NoAgent], "activeTerminalChanged")

\* onDidCloseTerminal for the terminal of an agent.
TerminalClosed ==
    \E id \in DOMAIN agents :
        LET w == [World EXCEPT !.activeAgentId = IF @ = id THEN NoAgent ELSE @]
        IN  Step(Send(removeAgent(w, id), [type |-> "agentClosed", id |-> id]),
                 "removeAgent")

\* The webview's webviewReady message.
RestoreAgents ==
    /\ DOMAIN agents # {}
    /\ \E liveTerminals \in SUBSET {agents[a].terminalRef : a \in DOMAIN agents} :
          \E io \in IOs :
              Step(restoreAgents(World, liveTerminals, io), "restoreAgents")

Next ==
    \/ LaunchNewTerminal
    \/ TranscriptWritten
    \/ ReadTriggered
    \/ JsonlPollTick
    \/ ProjectScanTick
    \/ ResyncAgent
    \/ FocusAgent
    \/ ActiveTerminalChanged
    \/ TerminalClosed
    \/ RestoreAgents

Spec == Init /\ [][Next]_vars

\* ------------------------------------------------- parser specification
\* One registered agent tailing one transcript; the transcript grows by whole
\* lines and every growth is observed by the fs.watch callback or a poll tick.
InitParser ==
    /\ \E f \in {"p1", "c1"} :
          /\ agents = (1 :> NewAgent(detectProviderFromJsonlFile(f), ProjectDirOf(f), f,
                                      TerminalOf(1)))
          /\ fileSize = (f :> 0)
          /\ knownJsonlFiles = {f}
          /\ projectScanState = [running |-> TRUE,
                                  provider |-> detectProviderFromJsonlFile(f),
                                  projectDir |-> ProjectDirOf(f)]
    /\ jsonlPollTimers = EmptyMap
    /\ waitingTimers = {}
    /\ permissionTimers = {}
    /\ doneTimers = <<>>
    /\ fileWatchers = {1}
    /\ pollingTimers = {1}
    /\ activeAgentId = 1
    /\ nextAgentId = 2
    /\ fileData = EmptyMap
    /\ sent = <<>>
    /\ lastOp = "init"
    /\ announced = {}
    /\ delivered = <<>>
    /\ roundRobinCursor = 0
    /\ promptTimers = <<>>
    /\ written = <<>>

\* The world after the agent's transcript grew by buf and the read routine ran.
GrowAndRead(id, buf) ==
    LET f == agents[id].jsonlFile
    IN  readNewLines([World EXCEPT !.fileSize = MapSet(@, f, @[f] + Len(buf))],
                     id, buf, FALSE)

\* The transcript grows by the lines of a batch and the watcher or the poll
\* runs the read routine.
TranscriptGrows(id) ==
    /\ id \in DOMAIN agents
    /\ id \in fileWatchers \cup pollingTimers
    /\ agents[id].fileOffset = fileSize[agents[id].jsonlFile]
    /\ \E lines \in Batches(agents[id].provider) :
          /\ fileSize[agents[id].jsonlFile] + Len(BytesOf(lines)) <= MaxFileSize
          /\ Len(GrowAndRead(id, BytesOf(lines)).doneTimers) <= MaxPendingDone
          /\ Commit(GrowAndRead(id, BytesOf(lines)), "readNewLines")
    /\ UNCHANGED <<fileData, delivered>>

\* A second trigger for bytes already read.
IdleRead(id) ==
    /\ id \in DOMAIN agents
    /\ id \in fileWatchers \cup pollingTimers
    /\ Commit(readNewLines(World, id, <<>>, FALSE), "readNewLinesIdle")
    /\ UNCHANGED <<fileData, delivered>>

WaitingTimerFires(id) ==
    /\ id \in waitingTimers
    /\ Commit(waitingTimerFires(World, id), "waitingTimerFires")
    /\ UNCHANGED <<fileData, delivered>>

PermissionTimerFires(id) ==
    /\ id \in permissionTimers
    /\ Commit(permissionTimerFires(World, id), "permissionTimerFires")
    /\ UNCHANGED <<fileData, delivered>>

DoneTimerFires ==
    /\ doneTimers # <<>>
    /\ Commit(doneTimerFires(World), "doneTimerFires")
    /\ UNCHANGED <<fileData, delivered>>

NextParser ==
    \/ \E id \in DOMAIN agents : TranscriptGrows(id)
    \/ \E id \in DOMAIN agents : IdleRead(id)
    \/ \E id \in waitingTimers : WaitingTimerFires(id)
    \/ \E id \in permissionTimers : PermissionTimerFires(id)
    \/ DoneTimerFires

SpecParser == InitParser /\ [][NextParser]_vars
\* ------------------------------------------- reassignment specification
\* One agent tailing a transcript that grows by one line or by a fragment
\* without newline at a time; a new transcript can appear in the project
\* directory, and the project scan then moves the active agent to it.
MoveBuffers(provider) ==
    {BytesOf(<<LineOf(r)>>) : r \in CoreOf(provider)} \cup {<<[b |-> "x"]>>}

\* What a transcript that has just appeared can hold.
NewFileContents(f) ==
    {<<>>, <<[b |-> "x"]>>}
    \cup {BytesOf(<<LineOf(r)>>) : r \in CoreOf(detectProviderFromJsonlFile(f))}

MoveGrows(id) ==
    /\ id \in DOMAIN agents
    /\ id \in fileWatchers \cup pollingTimers
    /\ agents[id].fileOffset = fileSize[agents[id].jsonlFile]
    /\ \E buf \in MoveBuffers(agents[id].provider) :
          /\ fileSize[agents[id].jsonlFile] + Len(buf) <= MaxMoveFile
          /\ Len(agents[id].lineBuffer) + Len(buf) <= 2
          /\ Len(GrowAndRead(id, buf).doneTimers) <= MaxPendingDone
          /\ Commit(GrowAndRead(id, buf), "readNewLines")
    /\ UNCHANGED <<fileData, delivered>>

\* A transcript appears and the scan interval's tick finds it.
NewFileScanned ==
    /\ projectScanState.running
    /\ \E f \in (ClaudePaths \cup CodexPaths) \ DOMAIN fileSize :
          \E content \in NewFileContents(f) :
              LET w0 == [World EXCEPT !.fileSize = MapSet(@, f, Len(content))]
                  io == [disk |-> (f :> content), watchFails |-> FALSE, readFails |-> FALSE]
                  listed == listProjectJsonlFiles(w0, projectScanState.projectDir,
                                                  projectScanState.provider)
              IN  \E files \in Orderings(listed) :
                      /\ Len(scanForNewJsonlFiles(w0, files, "none", io).doneTimers)
                             <= MaxPendingDone
                      /\ Commit(scanForNewJsonlFiles(w0, files, "none", io),
                                "scanForNewJsonlFiles")
    /\ UNCHANGED <<fileData, delivered>>

NextMove ==
    \/ \E id \in DOMAIN agents : MoveGrows(id)
    \/ NewFileScanned
    \/ \E id \in waitingTimers : WaitingTimerFires(id)
    \/ \E id \in permissionTimers : PermissionTimerFires(id)
    \/ DoneTimerFires

SpecMove == InitParser /\ [][NextMove]_vars

\* ------------------------------------------------ tailing specification
\* One registered agent tailing one transcript, byte by byte: the CLI appends
\* valid UTF-8 one byte at a time and the fs.watch callback and the poll
\* interval run the read routine at any moment in between.
TailFile == "p1"

TailBytes ==
    {NL, SP, [b |-> "x"], [b |-> "lead"], [b |-> "cont"],
     [b |-> "json", rec |-> [type |-> "system", subtype |-> "other"]]}

InitTail ==
    /\ agents = (1 :> NewAgent("claude", ProjectDirOf(TailFile), TailFile, TerminalOf(1)))
    /\ fileSize = (TailFile :> 0)
    /\ fileData = (TailFile :> <<>>)
    /\ knownJsonlFiles = {TailFile}
    /\ projectScanState = [running |-> TRUE, provider |-> "claude",
                            projectDir |-> ProjectDirOf(TailFile)]
    /\ jsonlPollTimers = EmptyMap
    /\ waitingTimers = {}
    /\ permissionTimers = {}
    /\ doneTimers = <<>>
    /\ fileWatchers = {1}
    /\ pollingTimers = {1}
    /\ activeAgentId = 1
    /\ nextAgentId = 2
    /\ sent = <<>>
    /\ lastOp = "init"
    /\ announced = {}
    /\ delivered = <<>>
    /\ roundRobinCursor = 0
    /\ promptTimers = <<>>
    /\ written = <<>>

\* The CLI appends one byte; the second byte of a two-byte character follows
\* its first byte and nothing else does.
ByteAppended ==
    \E b \in TailBytes :
        LET data == fileData[TailFile]
            afterLead == data # <<>> /\ data[Len(data)].b = "lead"
        IN  /\ Len(data) < MaxTailFile
            /\ (b.b = "cont") <=> afterLead
            /\ fileData' = MapSet(fileData, TailFile, Append(data, b))
            /\ fileSize' = MapSet(fileSize, TailFile, Len(data) + 1)
            /\ UNCHANGED <<agents, waitingTimers, permissionTimers, doneTimers,
                           fileWatchers, pollingTimers, jsonlPollTimers, projectScanState,
                           knownJsonlFiles, activeAgentId, nextAgentId, sent, lastOp,
                           announced, delivered, roundRobinCursor, promptTimers, written>>

\* One run of the read routine on the file as it is now; the lines it hands
\* to the parser are appended to delivered.
TailRead(id) ==
    LET io == [disk |-> fileData, watchFails |-> FALSE, readFails |-> FALSE]
        w == readNewLines(World, id, BufferFor(World, id, io), io.readFails)
    IN  /\ CommitState(w)
        /\ delivered' = delivered \o w.parsed
        /\ UNCHANGED <<fileData, sent, lastOp, announced, written>>

\* A run of the read routine, with unread bytes in the file, in which
\* statSync throws (statFails) or openSync, readSync or closeSync does: the
\* catch logs the error.
FailedRead(id, statFails) ==
    LET f == agents[id].jsonlFile
        w0 == IF statFails
              THEN [World EXCEPT !.fileSize = [g \in DOMAIN @ \ {f} |-> @[g]]]
              ELSE World
        w == readNewLines(w0, id, <<>>, TRUE)
    IN  /\ fileSize[f] > agents[id].fileOffset
        /\ CommitState([w EXCEPT !.fileSize = fileSize])
        /\ delivered' = delivered \o w.parsed
        /\ lastOp' = "readError"
        /\ UNCHANGED <<fileData, sent, announced, written>>

StatFails ==
    \E id \in (fileWatchers \cup pollingTimers) \cap DOMAIN agents : FailedRead(id, TRUE)

ReadSyncFails ==
    \E id \in (fileWatchers \cup pollingTimers) \cap DOMAIN agents : FailedRead(id, FALSE)

\* The fs.watch callback.
WatcherFires ==
    \E id \in fileWatchers \cap DOMAIN agents : TailRead(id)

\* The poll interval's tick.
PollTick ==
    \E id \in pollingTimers \cap DOMAIN agents : TailRead(id)

NextTail ==
    \/ ByteAppended
    \/ WatcherFires
    \/ PollTick
    \/ StatFails
    \/ ReadSyncFails

SpecTail == InitTail /\ [][NextTail]_vars

\* ------------------------------------------------- server specification
\* The standalone servers: an agent is a CLI process the server spawns itself,
\* on a pseudo-terminal or, in the newer server, on a pipe when that fails.
\* A freshly created WebAgentState.
WebAgent(provider, projectDir, jsonlFile, processMode) ==
    [provider |-> provider, projectDir |-> projectDir, jsonlFile |-> jsonlFile,
     processMode |-> processMode,
     fileOffset |-> 0, lineBuffer |-> <<>>,
     activeToolIds |-> {}, activeToolStatuses |-> EmptyMap,
     activeToolNames |-> EmptyMap, activeSubagentToolIds |-> EmptyMap,
     activeSubagentToolNames |-> EmptyMap,
     isWaiting |-> FALSE, permissionSent |-> FALSE, hadToolsInTurn |-> FALSE]

ServerError(message) == [type |-> "serverError", message |-> message]

\* The first of preferred, forced (the provider named by the environment),
\* 'claude', 'codex' whose CLI is in PATH (clis); "none" is undefined for the
\* two arguments and null for the result.
resolveProvider(preferred, forced, clis) ==
    IF preferred \in clis THEN preferred
    ELSE IF forced \in clis THEN forced
    ELSE IF "claude" \in clis THEN "claude"
    ELSE IF "codex" \in clis THEN "codex"
    ELSE "none"

\* resolveProvider of the extension: the same search, and the requested
\* provider, the forced one or 'claude' when no CLI is in PATH.
resolveTerminalProvider(preferred, forced, clis) ==
    LET found == resolveProvider(preferred, forced, clis)
    IN  IF found # "none" THEN found
        ELSE IF preferred # "none" THEN preferred
        ELSE IF forced # "none" THEN forced
        ELSE "claude"

\* The registration both servers do once a process handle exists.
RegisterAgent(w, provider, processMode, expectedFile, created, initialPrompt) ==
    LET id == w.nextAgentId
        projectDir == ProjectDirFor(provider)
        w1 == IF provider = "claude"
              THEN [w EXCEPT !.knownJsonlFiles = @ \cup {expectedFile}]
              ELSE w
        w2 == [SetAgent(w1, id, WebAgent(provider, projectDir, expectedFile, processMode))
                  EXCEPT !.nextAgentId = id + 1, !.activeAgentId = id]
        w2a == IF initialPrompt # <<>>
               THEN [Send(w2, created) EXCEPT
                        !.promptTimers = Append(@, [id |-> id, prompt |-> initialPrompt])]
               ELSE Send(w2, created)
        w3 == ensureProjectScan(w2a, projectDir, provider)
    IN  IF provider = "claude"
        THEN [w3 EXCEPT !.jsonlPollTimers = MapSet(@, id, "launch")]
        ELSE w3

\* launchNewAgent of src/server: ptyOk is createPtyProcess returning,
\* stdioOk is createStdioProcess returning; expectedFile is the path built
\* from the fresh session id.
launchNewAgent(w, preferred, forced, clis, ptyOk, stdioOk, expectedFile, initialPrompt) ==
    LET provider == resolveProvider(preferred, forced, clis)
        processMode == IF ptyOk THEN "pty" ELSE "stdio"
    IN  IF provider = "none" THEN Send(w, ServerError("noCli"))
        ELSE IF ~ptyOk /\ ~stdioOk THEN Send(w, ServerError("couldNotStart"))
        ELSE RegisterAgent(w, provider, processMode, expectedFile,
                           [type |-> "agentCreated", id |-> w.nextAgentId,
                            processMode |-> processMode],
                           initialPrompt)

\* The launch without an initial prompt and with no provider forced by the
\* environment.
serverLaunchNewAgent(w, preferred, clis, ptyOk, stdioOk, expectedFile) ==
    launchNewAgent(w, preferred, "none", clis, ptyOk, stdioOk, expectedFile, <<>>)

\* launchNewAgent of src/website/server: the pseudo-terminal or nothing.
websiteLaunchWithPrompt(w, ptyOk, expectedFile, initialPrompt) ==
    IF ~ptyOk THEN w
    ELSE RegisterAgent(w, "claude", "pty", expectedFile,
                       [type |-> "agentCreated", id |-> w.nextAgentId], initialPrompt)

websiteLaunchNewAgent(w, ptyOk, expectedFile) ==
    websiteLaunchWithPrompt(w, ptyOk, expectedFile, <<>>)

\* removeAgent of the servers: no test that the agent is registered.
serverRemoveAgent(w, id) ==
    LET w1 == [StopWatching(w, id) EXCEPT !.jsonlPollTimers = MapDelete(@, id)]
        w2 == cancelPermissionTimer(cancelWaitingTimer(w1, id), id)
    IN  [w2 EXCEPT !.agents = MapDelete(@, id)]

\* The onExit callback launchNewAgent of src/server registers; provider and
\* expectedFile are the values launchNewAgent captured.
processExited(w, id, exitCode, exitedQuickly, provider, expectedFile) ==
    LET w1 == IF /\ exitCode # 0
                 /\ exitedQuickly
                 /\ provider = "claude"
                 /\ expectedFile \notin DOMAIN w.fileSize
              THEN Send(w, ServerError("exitedRightAway"))
              ELSE w
    IN  Send(serverRemoveAgent(w1, id), [type |-> "agentClosed", id |-> id])

\* The session file a launch would expect, for the provider it resolves.
ExpectedFiles(provider) ==
    IF provider = "codex" THEN {PendingPath(nextAgentId)}
    ELSE ClaudePaths \ (DOMAIN fileSize \cup knownJsonlFiles)

\* The initial prompt of a launch: none or a text.
StartupPrompts == {<<>>, <<[b |-> "x"]>>}

ServerLaunch ==
    /\ nextAgentId <= MaxAgents
    /\ \E preferred \in Providers \cup {"none"} : \E forced \in Providers \cup {"none"} :
          \E clis \in SUBSET Providers : \E ptyOk \in BOOLEAN : \E stdioOk \in BOOLEAN :
              \E expectedFile \in ExpectedFiles(resolveProvider(preferred, forced, clis)) :
                  \E initialPrompt \in StartupPrompts :
                      /\ Commit(launchNewAgent(World, preferred, forced, clis, ptyOk,
                                               stdioOk, expectedFile, initialPrompt),
                                "launchNewAgent")
                      /\ UNCHANGED <<fileData, delivered>>

WebsiteLaunch ==
    /\ nextAgentId <= MaxAgents
    /\ \E ptyOk \in BOOLEAN : \E expectedFile \in ExpectedFiles("claude") :
       \E initialPrompt \in StartupPrompts :
          /\ Commit(websiteLaunchWithPrompt(World, ptyOk, expectedFile, initialPrompt),
                    "websiteLaunchNewAgent")
          /\ UNCHANGED <<fileData, delivered>>

\* The Claude CLI creates the session file it was told to use.
ExpectedTranscriptAppears ==
    \E id \in DOMAIN agents :
        /\ agents[id].provider = "claude"
        /\ agents[id].jsonlFile \notin DOMAIN fileSize
        /\ fileSize' = MapSet(fileSize, agents[id].jsonlFile, 0)
        /\ UNCHANGED <<agents, waitingTimers, permissionTimers, doneTimers, fileWatchers,
                       pollingTimers, jsonlPollTimers, projectScanState, knownJsonlFiles,
                       activeAgentId, nextAgentId, fileData, sent, lastOp, announced,
                       delivered, roundRobinCursor, promptTimers, written>>

ExpectedJsonlPollTick ==
    \E id \in DOMAIN jsonlPollTimers : \E io \in IOs :
        /\ Commit(jsonlPollTick(World, id, io), "jsonlPollTick")
        /\ UNCHANGED <<fileData, delivered>>

\* The process of a registered agent exits; no file is reassigned in this
\* specification, so the captured provider and path are the agent's.
ProcessExits ==
    \E id \in DOMAIN agents : \E exitCode \in {0, 1} : \E exitedQuickly \in BOOLEAN :
        /\ Commit(processExited(World, id, exitCode, exitedQuickly, agents[id].provider,
                                agents[id].jsonlFile),
                  "processExited")
        /\ UNCHANGED <<fileData, delivered>>

\* The closeAgent message of src/server: the registry is cleaned only when
\* kill() throws; otherwise the cleanup is left to the onExit callback.
closeAgent(w, id, killThrows) ==
    IF id \notin DOMAIN w.agents THEN w
    ELSE IF killThrows
         THEN Send(serverRemoveAgent(w, id), [type |-> "agentClosed", id |-> id])
         ELSE w

\* The closeAgent message of src/website/server: an error of kill() is
\* swallowed and the cleanup follows in either case.
websiteCloseAgent(w, id, killThrows) ==
    Send(serverRemoveAgent(w, id), [type |-> "agentClosed", id |-> id])

CloseAgent ==
    \E id \in 1..MaxAgents : \E killThrows \in BOOLEAN :
        /\ Commit(closeAgent(World, id, killThrows), "closeAgent")
        /\ UNCHANGED <<fileData, delivered>>

WebsiteCloseAgent ==
    \E id \in 1..MaxAgents : \E killThrows \in BOOLEAN :
        /\ Commit(websiteCloseAgent(World, id, killThrows), "websiteCloseAgent")
        /\ UNCHANGED <<fileData, delivered>>

\* ------------------------------------------------------- prompt routing
\* A prompt is a sequence of characters; CR is the '\r' the servers append.
CR == [b |-> "cr"]

\* agent.process.write(text)
Write(w, id, text) == [w EXCEPT !.written = Append(@, <<id, text>>)]

sendPromptToAgent(w, id, prompt) ==
    LET text == Trim(prompt)
    IN  IF text = <<>> THEN w ELSE Write(w, id, text \o <<CR>>)

\* [...agents.keys()].sort((a, b) => a - b)
RECURSIVE SortedIds(_)
SortedIds(S) ==
    IF S = {} THEN <<>>
    ELSE LET lo == CHOOSE x \in S : \A y \in S : x <= y
         IN  <<lo>> \o SortedIds(S \ {lo})

\* The registry is a Map filled in the order the ids were assigned, so its
\* iteration order is the ascending one.
RECURSIVE WriteAll(_, _, _)
WriteAll(w, ids, text) ==
    IF ids = <<>> THEN w ELSE WriteAll(Write(w, Head(ids), text), Tail(ids), text)

\* [...agents.values()].find(pred): the first id of ids in candidates, or
\* NoAgent.
FindFirst(ids, candidates) ==
    IF \E i \in 1..Len(ids) : ids[i] \in candidates
    THEN ids[CHOOSE i \in 1..Len(ids) :
                 ids[i] \in candidates /\ \A j \in 1..(i - 1) : ids[j] \notin candidates]
    ELSE NoAgent

\* A rotation that takes the cursor as the next index without the modulo.
RoundRobinRouteNoWrap(w, prompt) ==
    LET sortedIds == SortedIds(DOMAIN w.agents)
        idx == w.roundRobinCursor % Len(sortedIds)
        chosenId == sortedIds[idx + 1]
    IN  [Write(w, chosenId, prompt \o <<CR>>) EXCEPT
            !.roundRobinCursor = idx + 1,
            !.activeAgentId = chosenId]

RoundRobinRoute(w, prompt) ==
    LET sortedIds == SortedIds(DOMAIN w.agents)
        idx == w.roundRobinCursor % Len(sortedIds)
        chosenId == sortedIds[idx + 1]
    IN  [Write(w, chosenId, prompt \o <<CR>>) EXCEPT
            !.roundRobinCursor = (idx + 1) % Len(sortedIds),
            !.activeAgentId = chosenId]

\* A choice that prefers an agent with no tool open to a waiting one.
ActiveTargetIdleFirst(w) ==
    LET ids == SortedIds(DOMAIN w.agents)
        waiting == FindFirst(ids, {id \in DOMAIN w.agents : w.agents[id].isWaiting})
        idle == FindFirst(ids, {id \in DOMAIN w.agents :
                                   /\ w.agents[id].activeToolIds = {}
                                   /\ DOMAIN w.agents[id].activeToolStatuses = {}})
    IN  IF w.activeAgentId \in DOMAIN w.agents THEN w.activeAgentId
        ELSE IF idle # NoAgent THEN idle
        ELSE IF waiting # NoAgent THEN waiting
        ELSE ids[Len(ids)]

\* The agent the active route writes to.
ActiveTarget(w) ==
    LET ids == SortedIds(DOMAIN w.agents)
        waiting == FindFirst(ids, {id \in DOMAIN w.agents : w.agents[id].isWaiting})
        idle == FindFirst(ids, {id \in DOMAIN w.agents :
                                   /\ w.agents[id].activeToolIds = {}
                                   /\ DOMAIN w.agents[id].activeToolStatuses = {}})
    IN  IF w.activeAgentId \in DOMAIN w.agents THEN w.activeAgentId
        ELSE IF waiting # NoAgent THEN waiting
        ELSE IF idle # NoAgent THEN idle
        ELSE ids[Len(ids)]

ActiveRoute(w, prompt) ==
    LET target == ActiveTarget(w)
    IN  sendPromptToAgent([w EXCEPT !.activeAgentId = target], target, prompt)

\* A handler that launches the first agent without the prompt.
sendPromptDropsInitialPrompt(w, rawPrompt, route, preferred, forced, clis, ptyOk, stdioOk, expectedFile) ==
    LET prompt == Trim(rawPrompt)
    IN  IF prompt = <<>> THEN w
        ELSE IF DOMAIN w.agents = {}
             THEN launchNewAgent(w, preferred, forced, clis, ptyOk, stdioOk, expectedFile,
                                 <<>>)
        ELSE IF route = "broadcast"
             THEN WriteAll(w, SortedIds(DOMAIN w.agents), prompt \o <<CR>>)
        ELSE IF route = "round_robin" THEN RoundRobinRoute(w, prompt)
        ELSE ActiveRoute(w, prompt)

\* The sendPrompt message of src/server; the last six arguments are what the
\* launch of a first agent would meet.
sendPrompt(w, rawPrompt, route, preferred, forced, clis, ptyOk, stdioOk, expectedFile) ==
    LET prompt == Trim(rawPrompt)
    IN  IF prompt = <<>> THEN w
        ELSE IF DOMAIN w.agents = {}
             THEN launchNewAgent(w, preferred, forced, clis, ptyOk, stdioOk, expectedFile,
                                 prompt)
        ELSE IF route = "broadcast"
             THEN WriteAll(w, SortedIds(DOMAIN w.agents), prompt \o <<CR>>)
        ELSE IF route = "round_robin" THEN RoundRobinRoute(w, prompt)
        ELSE ActiveRoute(w, prompt)

\* The focusAgent message of src/server: any id becomes the active one.
serverFocusAgent(w, id) ==
    Send([w EXCEPT !.activeAgentId = id], [type |-> "agentSelected", id |-> id])

Routes == {"active", "broadcast", "round_robin"}

\* The texts a client sends: a word, the word between blanks, blanks only.
Prompts == {<<[b |-> "x"]>>, <<SP, [b |-> "x"], SP>>, <<SP>>}

\* The prompt relayAgentInfo builds from the summary of the source agent.
RelayPrompt(sourceId) == <<[b |-> "relay", source |-> sourceId]>>

\* [...new Set(targetIds)]: the first occurrence of every id, in order.
RECURSIVE Unique(_)
Unique(ids) ==
    IF ids = <<>> THEN <<>>
    ELSE LET front == Unique(SubSeq(ids, 1, Len(ids) - 1))
             last == ids[Len(ids)]
         IN  IF \E i \in 1..Len(front) : front[i] = last THEN front ELSE Append(front, last)

\* A relay that goes to every requested target, the source included.
RECURSIVE RelayToSourceToo(_, _, _, _)
RelayToSourceToo(w, sourceId, targets, deliveredTo) ==
    IF targets = <<>> THEN <<w, deliveredTo>>
    ELSE LET targetId == Head(targets)
         IN  IF targetId \notin DOMAIN w.agents
             THEN RelayToSourceToo(w, sourceId, Tail(targets), deliveredTo)
             ELSE RelayToSourceToo(sendPromptToAgent(w, targetId, RelayPrompt(sourceId)),
                                   sourceId, Tail(targets), Append(deliveredTo, targetId))

\* The loop over the targets: the world after it and the ids delivered to.
RECURSIVE RelayTo(_, _, _, _)
RelayTo(w, sourceId, targets, deliveredTo) ==
    IF targets = <<>> THEN <<w, deliveredTo>>
    ELSE LET targetId == Head(targets)
         IN  IF targetId = sourceId \/ targetId \notin DOMAIN w.agents
             THEN RelayTo(w, sourceId, Tail(targets), deliveredTo)
             ELSE RelayTo(sendPromptToAgent(w, targetId, RelayPrompt(sourceId)),
                          sourceId, Tail(targets), Append(deliveredTo, targetId))

relayAgentInfo(w, sourceId, targetIds) ==
    IF sourceId \notin DOMAIN w.agents THEN Send(w, ServerError("agentNotFound"))
    ELSE LET done == RelayTo(w, sourceId, Unique(targetIds), <<>>)
         IN  IF done[2] # <<>>
             THEN Send(done[1], [type |-> "agentTeamSync", sourceId |-> sourceId,
                                 targetIds |-> done[2]])
             ELSE done[1]

\* The target lists a client sends: up to two ids, and some with a repeat.
TargetLists ==
    {<<>>} \cup {<<a>> : a \in 1..MaxPromptAgents}
    \cup {<<a, b>> : a \in 1..MaxPromptAgents, b \in 1..MaxPromptAgents}
    \cup {<<a, b, a>> : a \in 1..2, b \in 2..MaxPromptAgents}

\* The target lists of the relays that are carried out: one with a repeat,
\* one without, one naming a single agent twice.
RelayedLists == {<<1, 2, 1>>, <<2, 3>>, <<3, 3>>}

\* The relayAgentInfo message.
RelayAgentInfo ==
    \E sourceId \in 1..MaxPromptAgents : \E targetIds \in RelayedLists :
        /\ Commit(relayAgentInfo(World, sourceId, targetIds), "relayAgentInfo")
        /\ UNCHANGED <<fileData, delivered>>

\* What the transcript of a server's agent grows by: a tool starts, its
\* result arrives, the assistant answers in text, the turn ends.
ServerRecords ==
    {Assistant(<<ToolUse("t1", "Bash")>>), User(<<ToolResult("t1")>>),
     Assistant(<<TextBlock>>), TurnDuration}

\* The Claude CLI appends a record and the watcher or the poll reads it.
ServerTranscriptGrows ==
    \E id \in DOMAIN agents \cap (fileWatchers \cup pollingTimers) :
        \E r \in ServerRecords :
            LET f == agents[id].jsonlFile
                buf == BytesOf(<<LineOf(r)>>)
            IN  /\ agents[id].fileOffset = fileSize[f]
                /\ fileSize[f] + Len(buf) <= MaxServerFile
                /\ Len(GrowAndRead(id, buf).doneTimers) <= MaxPendingDone
                /\ Commit(GrowAndRead(id, buf), "readNewLines")
                /\ UNCHANGED <<fileData, delivered>>

RemoveAt(q, i) == SubSeq(q, 1, i - 1) \o SubSeq(q, i + 1, Len(q))

\* The timeout of agentServer.ts and agentManager.ts: the prompt and a
\* carriage return are written if the agent is still registered.
initialPromptTimerFires(w, i) ==
    LET t == w.promptTimers[i]
        w1 == [w EXCEPT !.promptTimers = RemoveAt(@, i)]
    IN  IF t.id \in DOMAIN w.agents THEN Write(w1, t.id, t.prompt \o <<CR>>) ELSE w1

\* The timeouts have one delay and fire in the order they were set.
InitialPromptTimerFires ==
    /\ promptTimers # <<>>
    /\ Commit(initialPromptTimerFires(World, 1), "promptTimerFires")
    /\ UNCHANGED <<fileData, delivered>>

NextServer ==
    \/ InitialPromptTimerFires
    \/ ServerLaunch
    \/ WebsiteLaunch
    \/ ExpectedTranscriptAppears
    \/ ExpectedJsonlPollTick
    \/ ProcessExits
    \/ ServerTranscriptGrows
    \/ CloseAgent
    \/ WebsiteCloseAgent
    \/ \E id \in waitingTimers : WaitingTimerFires(id)
    \/ \E id \in permissionTimers : PermissionTimerFires(id)
    \/ DoneTimerFires

SpecServer == Init /\ [][NextServer]_vars

\* ------------------------------------------------- prompt specification
\* src/server as its clients drive it: agents are launched and exit, their
\* transcripts appear and grow, and prompts are sent, routed and relayed.
PromptLaunch ==
    /\ nextAgentId <= MaxPromptAgents
    /\ \E preferred \in Providers :
          \E expectedFile \in ExpectedFiles(preferred) :
              /\ Commit(launchNewAgent(World, preferred, "none", Providers, TRUE, TRUE,
                                       expectedFile, <<>>),
                        "launchNewAgent")
              /\ UNCHANGED <<fileData, delivered>>

\* A tool starts; the turn ends.
PromptRecords == {Assistant(<<ToolUse("t1", "Bash")>>), TurnDuration}

PromptTranscriptGrows ==
    \E id \in DOMAIN agents \cap (fileWatchers \cup pollingTimers) :
        \E r \in PromptRecords :
            LET f == agents[id].jsonlFile
                buf == BytesOf(<<LineOf(r)>>)
            IN  /\ agents[id].fileOffset = fileSize[f]
                /\ fileSize[f] + Len(buf) <= MaxPromptFile
                /\ Commit(GrowAndRead(id, buf), "readNewLines")
                /\ UNCHANGED <<fileData, delivered>>

\* A prompt arrives while no agent is registered.
SendPromptEmpty ==
    /\ DOMAIN agents = {}
    /\ nextAgentId <= MaxPromptAgents
    /\ \E rawPrompt \in Prompts : \E route \in Routes :
          \E preferred \in Providers \cup {"none"} : \E clis \in {{}, Providers} :
              \E ptyOk \in BOOLEAN :
                  \E expectedFile \in ExpectedFiles(resolveProvider(preferred, "none", clis)) :
                      /\ Commit(sendPrompt(World, rawPrompt, route, preferred, "none", clis,
                                           ptyOk, TRUE, expectedFile),
                                "sendPrompt")
                      /\ UNCHANGED <<fileData, delivered>>

\* A prompt arrives while agents are registered.
SendPromptRouted ==
    /\ DOMAIN agents # {}
    /\ \E rawPrompt \in Prompts : \E route \in Routes :
          /\ Commit(sendPrompt(World, rawPrompt, route, "none", "none", Providers, TRUE, TRUE,
                               "p1"),
                    "sendPrompt")
          /\ UNCHANGED <<fileData, delivered>>

ServerFocusAgent ==
    \E id \in 1..MaxPromptAgents :
        /\ Commit(serverFocusAgent(World, id), "focusAgent")
        /\ UNCHANGED <<fileData, delivered>>

\* The process of a registered agent exits normally.
PromptProcessExits ==
    \E id \in DOMAIN agents :
        /\ Commit(processExited(World, id, 0, FALSE, agents[id].provider,
                                agents[id].jsonlFile),
                  "processExited")
        /\ UNCHANGED <<fileData, delivered>>

NextPrompt ==
    \/ PromptLaunch
    \/ ExpectedTranscriptAppears
    \/ ExpectedJsonlPollTick
    \/ PromptTranscriptGrows
    \/ SendPromptEmpty
    \/ SendPromptRouted
    \/ ServerFocusAgent
    \/ PromptProcessExits
    \/ RelayAgentInfo

SpecPrompt == Init /\ [][NextPrompt]_vars

\* ------------------------------------------------ startup specification
\* The extension host launching agents with an initial prompt: terminals are
\* launched and closed, transcripts appear and grow, the polls, the scan and
\* the prompt timeouts fire.  An agent leaves the registry only when its
\* terminal is closed, so a timeout that finds no agent finds no terminal.
\* The timeout of launchNewTerminal: sendText writes the text and a newline
\* to the terminal the agent was created with, registered or not; a closed
\* terminal takes nothing.
terminalPromptTimerFires(w, i, terminalOpen) ==
    LET t == w.promptTimers[i]
        w1 == [w EXCEPT !.promptTimers = RemoveAt(@, i)]
    IN  IF terminalOpen THEN Write(w1, t.id, t.prompt \o <<NL>>) ELSE w1

\* launchNewTerminal called with a prompt (empty when there is none).
launchNewTerminalWithPrompt(w, provider, expectedFile, prompt) ==
    LET id == w.nextAgentId
        w1 == launchNewTerminal(w, provider, expectedFile)
        w2 == SetAgent(w1, id, w1.agents[id] @@ [pendingPrompt |-> prompt])
    IN  IF provider = "claude" THEN w2 ELSE schedulePendingPrompt(w2, id)

TerminalLaunchWithPrompt ==
    /\ nextAgentId <= MaxStartupAgents
    /\ \E provider \in Providers : \E prompt \in StartupPrompts :
          \E expectedFile \in ExpectedFiles(provider) :
              /\ Commit(launchNewTerminalWithPrompt(World, provider, expectedFile, prompt),
                        "launchNewTerminal")
              /\ UNCHANGED <<fileData, delivered>>

TerminalPromptTimerFires ==
    \E i \in 1..Len(promptTimers) :
        /\ Commit(terminalPromptTimerFires(World, i, promptTimers[i].id \in DOMAIN agents),
                  "promptTimerFires")
        /\ UNCHANGED <<fileData, delivered>>

StartupScanTick ==
    /\ projectScanState.running
    /\ \E files \in Orderings(listProjectJsonlFiles(World, projectScanState.projectDir,
                                                        projectScanState.provider)) :
          \E activeTerminal \in {"none", "external"} : \E io \in IOs :
              /\ Commit(scanForNewJsonlFiles(World, files, activeTerminal, io),
                        "scanForNewJsonlFiles")
              /\ UNCHANGED <<fileData, delivered>>

StartupTerminalClosed ==
    \E id \in DOMAIN agents :
        LET w == [World EXCEPT !.activeAgentId = IF @ = id THEN NoAgent ELSE @]
        IN  /\ Commit(Send(removeAgent(w, id), [type |-> "agentClosed", id |-> id]),
                      "removeAgent")
            /\ UNCHANGED <<fileData, delivered>>

NextStartup ==
    \/ TerminalLaunchWithPrompt
    \/ ExpectedTranscriptAppears
    \/ ExpectedJsonlPollTick
    \/ TerminalPromptTimerFires
    \/ StartupScanTick
    \/ StartupTerminalClosed

SpecStartup == Init /\ [][NextStartup]_vars

\* The timeouts and the polls are timers of the running process and fire;
\* when a CLI writes its transcript is its own business.
FairSpecStartup ==
    /\ SpecStartup
    /\ WF_vars(TerminalPromptTimerFires)
    /\ WF_vars(ExpectedJsonlPollTick)

\* ------------------------------------------------------------------ claims
\* C2: the read routine invoked when the file's size is not greater than the
\* agent's offset (equal, or smaller after a truncation) returns the world it
\* was given: no line reaches the parser, no event is sent, no timer is
\* cancelled, and offset, line buffer and tool state are what they were.
C2_ReadWithoutGrowthDoesNothing ==
    \A id \in DOMAIN agents :
        \A size \in 0..agents[id].fileOffset :
            LET w == [World EXCEPT !.fileSize = MapSet(@, agents[id].jsonlFile, size)]
            IN  readNewLines(w, id, BytesOf(<<LineOf(TurnDuration)>>), FALSE) = w

\* A second trigger arrived for bytes already read while a waiting timer was
\* pending and a permission notice had not been cleared.
C2_Witness ==
    /\ lastOp = "readNewLinesIdle"
    /\ sent = <<>>
    /\ 1 \in waitingTimers
    /\ agents[1].fileOffset > 0

\* C3: every tool id in an agent's activeToolIds was announced by an
\* agentToolStart and no agentToolDone for that id was sent since.
C3_ActiveToolsAnnounced ==
    \A id \in DOMAIN agents :
        \A t \in agents[id].activeToolIds : <<id, t>> \in announced
\* The worlds in which the read routine hands a line to the parser: before
\* the first line of a read the timers have just been cancelled; before a
\* later line the earlier lines of the same read have been processed, which
\* is what a state left by the read routine looks like.
LinePreStates(id) ==
    {[CancelOnNewLines(World, id) EXCEPT !.sent = <<>>]}
    \cup (IF lastOp = "readNewLines" THEN {World} ELSE {})

EventTag(e) ==
    IF e.type = "agentToolStart" THEN <<e.type, e.toolId>>
    ELSE IF e.type = "agentStatus" THEN <<e.type, e.status>>
    ELSE <<e.type, "">>

IsStartOrStatus(e) == e.type \in {"agentToolStart", "agentStatus"}

StartAndStatusTags(events) ==
    LET sel == SelectSeq(events, IsStartOrStatus)
    IN  [i \in 1..Len(sel) |-> EventTag(sel[i])]

RECURSIVE ExpectedToolStarts(_)
ExpectedToolStarts(blocks) ==
    IF blocks = <<>> THEN <<>>
    ELSE (IF Head(blocks).type = "tool_use" /\ Has(Head(blocks), "id")
          THEN <<(<<"agentToolStart", Head(blocks).id>>)>>
          ELSE <<>>) \o ExpectedToolStarts(Tail(blocks))

HasToolUse(r) ==
    /\ r.type = "assistant"
    /\ Has(r, "content")
    /\ \E i \in 1..Len(r.content) : r.content[i].type = "tool_use"

\* C6 as stated: a Dialect A assistant record with tool_use blocks emits one
\* agentToolStart per tool_use block that has an id, in block order, and the
\* agentStatus active after them.
C6_ToolStartsThenStatus ==
    \A id \in DOMAIN agents :
        agents[id].provider = "claude" =>
            \A r \in ClaudeRecords :
                HasToolUse(r) =>
                    \A p \in LinePreStates(id) :
                        StartAndStatusTags(processTranscriptLine(p, id, LineOf(r)).sent)
                            = ExpectedToolStarts(r.content)
                                  \o <<(<<"agentStatus", "active">>)>>

\* C6 amended: a Dialect A assistant record with tool_use blocks emits the
\* agentStatus active first and then one agentToolStart per tool_use block
\* that has an id, in block order.
C6_StatusThenToolStarts ==
    \A id \in DOMAIN agents :
        agents[id].provider = "claude" =>
            \A r \in ClaudeRecords :
                HasToolUse(r) =>
                    \A p \in LinePreStates(id) :
                        StartAndStatusTags(processTranscriptLine(p, id, LineOf(r)).sent)
                            = <<(<<"agentStatus", "active">>)>>
                                  \o ExpectedToolStarts(r.content)

\* A read has just processed an assistant record with two tool_use blocks.
C6_Witness ==
    /\ lastOp = "readNewLines"
    /\ agents[1].provider = "claude"
    /\ StartAndStatusTags(sent)
           = << <<"agentStatus", "active">>, <<"agentToolStart", "t1">>,
                <<"agentToolStart", "t2">> >>
\* Record r carries a tool result for tool id t.
Closes(r, t) ==
    \/ /\ r.type = "user"
       /\ Has(r, "content")
       /\ \E i \in 1..Len(r.content) :
             /\ r.content[i].type = "tool_result"
             /\ Has(r.content[i], "tool_use_id")
             /\ r.content[i].tool_use_id = t
    \/ /\ r.type = "response_item"
       /\ r.payload.type = "function_call_output"
       /\ Has(r.payload, "call_id")
       /\ r.payload.call_id = t

\* Pending or sent agentToolDone events for tool t of agent id in a sequence.
ToolDones(events, id, t) ==
    Cardinality({i \in 1..Len(events) :
                    /\ events[i].type = "agentToolDone"
                    /\ events[i].id = id
                    /\ events[i].toolId = t})

\* C7: a record carrying the result of an active tool t removes t from the
\* three tool maps while the line is processed, sends no agentToolDone in
\* that step, and leaves exactly one more delayed agentToolDone for t pending.
C7_ResultClosesAndSchedulesOneDone ==
    \A id \in DOMAIN agents :
        \A r \in RecordsOf(agents[id].provider) :
            \A t \in ToolIds :
                \A p \in LinePreStates(id) :
                    (t \in p.agents[id].activeToolIds /\ Closes(r, t)) =>
                        LET w == processTranscriptLine(p, id, LineOf(r))
                        IN  /\ t \notin w.agents[id].activeToolIds
                            /\ t \notin DOMAIN w.agents[id].activeToolStatuses
                            /\ t \notin DOMAIN w.agents[id].activeToolNames
                            /\ ToolDones(w.sent, id, t) = 0
                            /\ ToolDones(w.doneTimers, id, t)
                                   = ToolDones(p.doneTimers, id, t) + 1

IsNewTurn(r) ==
    \/ /\ r.type = "user"
       /\ \/ /\ Has(r, "content")
             /\ \A i \in 1..Len(r.content) : r.content[i].type # "tool_result"
          \/ /\ Has(r, "text")
             /\ r.text # "blank"
    \/ /\ r.type = "event_msg"
       /\ r.payload.type \in {"user_message", "turn_aborted"}

NoToolState(ag) ==
    /\ ag.activeToolIds = {}
    /\ DOMAIN ag.activeToolStatuses = {}
    /\ DOMAIN ag.activeToolNames = {}
    /\ DOMAIN ag.activeSubagentToolIds = {}
    /\ DOMAIN ag.activeSubagentToolNames = {}

\* C8: processing a record that starts a new user turn leaves, in the one
\* step of its handler, the waiting timer cancelled, the tool maps and the
\* sub-tool maps empty, and hadToolsInTurn false.
C8_NewTurnClearsAtomically ==
    \A id \in DOMAIN agents :
        \A r \in RecordsOf(agents[id].provider) :
            IsNewTurn(r) =>
                \A p \in LinePreStates(id) :
                    LET w == processTranscriptLine(p, id, LineOf(r))
                    IN  /\ id \notin w.waitingTimers
                        /\ NoToolState(w.agents[id])
                        /\ ~w.agents[id].hadToolsInTurn

\* A read has just processed a new-turn record that cleared a started tool.
C8_Witness ==
    /\ lastOp = "readNewLines"
    /\ \E i \in 1..Len(sent) : sent[i].type = "agentToolsClear"
    /\ \A i \in 1..Len(sent) : sent[i].type # "agentStatus"
    /\ announced # {}
    /\ doneTimers = <<>>
    /\ NoToolState(agents[1])
    /\ 1 \notin waitingTimers
    /\ ~agents[1].hadToolsInTurn

IsEndOfTurn(r) ==
    \/ /\ r.type = "system"
       /\ Has(r, "subtype")
       /\ r.subtype = "turn_duration"
    \/ /\ r.type = "event_msg"
       /\ r.payload.type = "task_complete"
    \/ /\ r.type = "response_item"
       /\ r.payload.type = "message"
       /\ r.payload.role = "assistant"
       /\ r.payload.phase = "final_answer"

StatusEvents(events) ==
    LET sel == SelectSeq(events, LAMBDA e : e.type = "agentStatus")
    IN  [i \in 1..Len(sel) |-> sel[i].status]

\* C9: an authoritative end-of-turn record cancels both timers, empties all
\* tool and sub-tool state (sending agentToolsClear when tools were active),
\* sets isWaiting, resets permissionSent and hadToolsInTurn, and sends exactly
\* one agentStatus waiting.
C9_EndOfTurnClearsEverything ==
    \A id \in DOMAIN agents :
        \A r \in RecordsOf(agents[id].provider) :
            IsEndOfTurn(r) =>
                \A p \in LinePreStates(id) :
                    LET w == processTranscriptLine(p, id, LineOf(r))
                    IN  /\ id \notin w.waitingTimers
                        /\ id \notin w.permissionTimers
                        /\ NoToolState(w.agents[id])
                        /\ p.agents[id].activeToolIds # {} =>
                               \E i \in 1..Len(w.sent) : w.sent[i].type = "agentToolsClear"
                        /\ w.agents[id].isWaiting
                        /\ ~w.agents[id].permissionSent
                        /\ ~w.agents[id].hadToolsInTurn
                        /\ StatusEvents(w.sent) = <<"waiting">>

IsTextOnly(r) ==
    \/ /\ r.type = "assistant"
       /\ Has(r, "content")
       /\ \E i \in 1..Len(r.content) : r.content[i].type = "text"
       /\ \A i \in 1..Len(r.content) : r.content[i].type # "tool_use"
    \/ /\ r.type = "response_item"
       /\ r.payload.type = "message"
       /\ r.payload.role = "assistant"
       /\ r.payload.phase # "final_answer"

\* C10: a text-only assistant record starts the waiting timer, and no other
\* timer, when hadToolsInTurn is false; when it is true the record starts no
\* timer and cancels none.
C10_TextOnlyStartsWaitingTimerIffNoTools ==
    \A id \in DOMAIN agents :
        \A r \in RecordsOf(agents[id].provider) :
            IsTextOnly(r) =>
                \A p \in LinePreStates(id) :
                    LET w == processTranscriptLine(p, id, LineOf(r))
                    IN  /\ w.permissionTimers = p.permissionTimers
                        /\ IF p.agents[id].hadToolsInTurn
                           THEN /\ w.timerStarts = p.timerStarts
                                /\ w.waitingTimers = p.waitingTimers
                           ELSE /\ w.timerStarts = Append(p.timerStarts, <<"waiting", id>>)
                                /\ id \in w.waitingTimers

\* A read has just left a waiting timer armed for an agent whose turn had no
\* tool use, and another has left none for an agent whose turn had one.
C10_Witness ==
    /\ lastOp = "readNewLines"
    /\ 1 \in waitingTimers
    /\ ~agents[1].hadToolsInTurn
    /\ agents[1].activeToolIds = {}
\* C4: no two registered agents tail the same transcript path.
C4_OneTailerPerTranscript ==
    \A a, b \in DOMAIN agents :
        (a # b /\ a \in pollingTimers /\ b \in pollingTimers)
            => agents[a].jsonlFile # agents[b].jsonlFile

\* Handler result w leaves the offset of every agent it keeps as it was.
KeepsOffsets(w) ==
    \A id \in DOMAIN agents \cap DOMAIN w.agents :
        w.agents[id].fileOffset = agents[id].fileOffset

\* The handlers other than the read routine (run by the watcher, the poll, or
\* the poll for the expected transcript), the scan's reassignment, the resync
\* and the restore leave every offset as it was.
OtherHandlersKeepOffsets ==
    /\ \A provider \in Providers : \A expectedFile \in ClaudePaths \cup {PendingPath(nextAgentId)} :
           KeepsOffsets(launchNewTerminal(World, provider, expectedFile))
    /\ \A id \in DOMAIN agents :
           /\ KeepsOffsets(removeAgent(World, id))
           /\ KeepsOffsets(Send([World EXCEPT !.activeAgentId = id],
                                [type |-> "agentSelected", id |-> id]))

\* The reads a handler makes after moving agent id to file f: none if the file
\* is empty, else the whole file from byte 0.
ReadsFromStart(w, id, f) ==
    /\ w.agents[id].jsonlFile = f
    /\ w.agents[id].fileOffset = fileSize[f]
    /\ w.reads = IF fileSize[f] > 0 THEN <<(<<id, f, 0, fileSize[f]>>)>> ELSE <<>>

\* C5: an agent's offset never decreases while its path stays the same; an
\* agent moved to another file (by reassignment or by a resync that finds its
\* file missing) has its offset set to 0, so that the read which follows in
\* the same handler covers the new file from byte 0; and only the read
\* routine, the reassignment, the resync and the restore change an offset.
C5_OffsetMonotoneAndReset ==
    /\ []OtherHandlersKeepOffsets
    /\ [](\A id \in DOMAIN agents : \A io \in IOs :
            \A f \in DOMAIN fileSize \ {agents[id].jsonlFile} :
                /\ ReadsFromStart(reassignAgentToFile(World, id, f, io), id, f)
                /\ (agents[id].jsonlFile \notin DOMAIN fileSize
                    /\ f \in listProjectJsonlFiles(World, agents[id].projectDir,
                                                    agents[id].provider))
                       => ReadsFromStart(resyncAgent(World, id, f, io), id, f))
    /\ [][\A id \in DOMAIN agents \cap DOMAIN agents' :
            /\ agents'[id].jsonlFile = agents[id].jsonlFile
                   => agents'[id].fileOffset >= agents[id].fileOffset
            /\ agents'[id].jsonlFile # agents[id].jsonlFile
                   => agents'[id].fileOffset =
                          (IF agents'[id].jsonlFile \in DOMAIN fileSize'
                           THEN fileSize'[agents'[id].jsonlFile] ELSE 0)]_vars

\* An agent still waiting for the transcript it was launched with has been
\* moved to another file and has read that file's line from byte 0.
C5_Witness ==
    /\ activeAgentId \in DOMAIN agents
    /\ activeAgentId \in DOMAIN jsonlPollTimers
    /\ agents[activeAgentId].fileOffset = 2
\* The non-blank complete lines of a text, in order.
CompleteLines(text) ==
    LET split == SplitLines(text)
    IN  SelectSeq(SubSeq(split, 1, Len(split) - 1), LAMBDA l : ~IsBlank(l))

\* C1: whatever the appends and however the watcher's and the poll's reads
\* interleave with them, the lines handed to the parser so far are exactly the
\* non-blank complete lines of the part of the file that has been read, each
\* once and in file order; the fragment after the last newline is not handed
\* over before the bytes that complete it have been read.
C1_EveryLineOnceInOrder ==
    \A id \in DOMAIN agents :
        agents[id].jsonlFile \in DOMAIN fileData =>
            delivered = CompleteLines(Utf8ToString(
                            SubSeq(fileData[agents[id].jsonlFile], 1, agents[id].fileOffset)))

\* A record that starts tools: a Dialect A assistant record with a tool_use
\* block, a Dialect B function_call with a call id and a name.
IsToolStart(r) ==
    \/ HasToolUse(r)
    \/ /\ r.type = "response_item"
       /\ r.payload.type = "function_call"
       /\ Has(r.payload, "call_id")
       /\ Has(r.payload, "name")

\* One of the tools the record starts is permission-relevant.
PermissionRelevant(r) ==
    IF r.type = "assistant"
    THEN \E i \in 1..Len(r.content) :
            /\ r.content[i].type = "tool_use"
            /\ Has(r.content[i], "id")
            /\ (IF Has(r.content[i], "name") THEN r.content[i].name ELSE "")
                   \notin PERMISSION_EXEMPT_TOOLS
    ELSE r.payload.name \in CODEX_PERMISSION_SENSITIVE_TOOLS

\* C11: a record that starts tools starts the permission timer, once, if and
\* only if one of the tools it starts is permission-relevant (Dialect A: a
\* started tool outside {Task, AskUserQuestion}; Dialect B: exec_command or
\* shell_command); otherwise it starts no permission timer and leaves the
\* permission slot as it was.
C11_PermissionTimerIffRelevant ==
    \A id \in DOMAIN agents :
        \A r \in RecordsOf(agents[id].provider) :
            IsToolStart(r) =>
                \A p \in LinePreStates(id) :
                    LET w == processTranscriptLine(p, id, LineOf(r))
                        starts == SelectSeq(w.timerStarts,
                                            LAMBDA s : s = <<"permission", id>>)
                    IN  IF PermissionRelevant(r)
                        THEN Len(starts) = 1 /\ id \in w.permissionTimers
                        ELSE starts = <<>> /\ w.permissionTimers = p.permissionTimers

\* A read has just started the exempt tool Task and the tool Bash in one
\* record and the permission timer is armed.
C11_Witness ==
    /\ lastOp = "readNewLines"
    /\ 1 \in permissionTimers
    /\ agents[1].activeToolIds = {"t1", "t2"}
    /\ agents[1].activeToolNames["t1"] = "Task"
    /\ agents[1].activeToolNames["t2"] = "Bash"

\* C12: when a waiting timer is running for an agent and a record starts the
\* permission timer for it, the record's handler leaves no waiting timer
\* running for the agent.
C12_PermissionStartCancelsWaiting ==
    \A id \in DOMAIN agents :
        \A r \in RecordsOf(agents[id].provider) :
            \A p \in LinePreStates(id) :
                LET w == processTranscriptLine(p, id, LineOf(r))
                IN  (id \in p.waitingTimers /\ w.timerStarts # p.timerStarts
                     /\ w.timerStarts[Len(w.timerStarts)] = <<"permission", id>>)
                        => id \notin w.waitingTimers

\* What one read cycle can find appended: the lines of a batch, a blank line,
\* a line of white space, a fragment without a newline.
CycleBuffers(provider) ==
    {BytesOf(lines) : lines \in Batches(provider)}
    \cup {<<NL>>, <<SP, NL>>, <<[b |-> "x"]>>, <<SP>>}

\* The complete lines the cycle of agent ag yields when it reads buf.
CycleLines(ag, buf) ==
    LET split == SplitLines(ag.lineBuffer \o Utf8ToString(buf))
    IN  SubSeq(split, 1, Len(split) - 1)

PermissionClears(events) ==
    SelectSeq(events, LAMBDA e : e.type = "agentToolPermissionClear")

\* A cycle that cancelled both timers before its first line and sent the
\* permission-clear iff the notice had been sent: every timer running after
\* it was started by one of its lines, and the clear, if any, precedes every
\* event of the parser.
CycleCancelled(id, w) ==
    /\ id \in w.waitingTimers
           => \E i \in 1..Len(w.timerStarts) : w.timerStarts[i] = <<"waiting", id>>
    /\ id \in w.permissionTimers
           => \E i \in 1..Len(w.timerStarts) : w.timerStarts[i] = <<"permission", id>>
    /\ IF agents[id].permissionSent
       THEN /\ Len(PermissionClears(w.sent)) = 1
            /\ w.sent[2].type = "agentToolPermissionClear"
            /\ w.agents[id].permissionSent
                   => \E i \in 3..Len(w.sent) : w.sent[i].type = "agentToolPermission"
       ELSE PermissionClears(w.sent) = <<>>

\* A cycle that cancelled nothing and sent nothing.
CycleLeftAlone(id, w) ==
    /\ w.sent = <<>>
    /\ w.timerStarts = <<>>
    /\ w.waitingTimers = waitingTimers
    /\ w.permissionTimers = permissionTimers
    /\ w.agents[id].permissionSent = agents[id].permissionSent

\* C13 as stated: a read cycle that yields at least one complete line cancels
\* both timers before its first line is dispatched and emits the
\* permission-clear iff permissionSent was true, resetting it; a cycle that
\* yields no complete line emits nothing and cancels nothing.
C13_AnyCompleteLineCancels ==
    \A id \in DOMAIN agents :
        \A buf \in CycleBuffers(agents[id].provider) :
            LET w == GrowAndRead(id, buf)
            IN  IF CycleLines(agents[id], buf) # <<>>
                THEN CycleCancelled(id, w)
                ELSE CycleLeftAlone(id, w)

\* C13 amended: the same for a cycle that yields at least one complete line
\* that is not blank; a cycle that yields only blank lines or no complete
\* line emits nothing and cancels nothing.
C13_NonBlankLineCancels ==
    \A id \in DOMAIN agents :
        \A buf \in CycleBuffers(agents[id].provider) :
            LET w == GrowAndRead(id, buf)
                lines == CycleLines(agents[id], buf)
            IN  IF \E i \in 1..Len(lines) : ~IsBlank(lines[i])
                THEN CycleCancelled(id, w)
                ELSE CycleLeftAlone(id, w)

\* A read cycle has just sent the permission-clear for a notice sent earlier.
C13_Witness ==
    /\ lastOp = "readNewLines"
    /\ Len(sent) >= 2
    /\ sent[1].type = "agentHeartbeat"
    /\ sent[2].type = "agentToolPermissionClear"
    /\ ~agents[1].permissionSent

\* A tool-result record: a Dialect A user record with a tool_result block, a
\* Dialect B function_call_output.
IsToolResult(r) ==
    \/ /\ r.type = "user"
       /\ Has(r, "content")
       /\ \E i \in 1..Len(r.content) : r.content[i].type = "tool_result"
    \/ /\ r.type = "response_item"
       /\ r.payload.type = "function_call_output"

\* Agent ag has a permission-relevant tool or sub-tool open.
HasRelevantTool(ag) ==
    IF ag.provider = "codex"
    THEN \E t \in ag.activeToolIds : ag.activeToolNames[t] \in CODEX_PERMISSION_SENSITIVE_TOOLS
    ELSE \/ \E t \in ag.activeToolIds : ag.activeToolNames[t] \notin PERMISSION_EXEMPT_TOOLS
         \/ \E parent \in DOMAIN ag.activeSubagentToolNames :
                \E st \in DOMAIN ag.activeSubagentToolNames[parent] :
                    ag.activeSubagentToolNames[parent][st] \notin PERMISSION_EXEMPT_TOOLS

\* C14: once a tool-result record has closed the last permission-relevant
\* tool of an agent, no permission timer is armed for the agent, whether the
\* tool was started in an earlier read cycle or in the same one.
C14_ResultClearsPermissionTimer ==
    \A id \in DOMAIN agents :
        \A r \in RecordsOf(agents[id].provider) :
            IsToolResult(r) =>
                \A p \in LinePreStates(id) :
                    LET w == processTranscriptLine(p, id, LineOf(r))
                    IN  (HasRelevantTool(p.agents[id]) /\ ~HasRelevantTool(w.agents[id]))
                            => id \notin w.permissionTimers

\* C15: reassigning an agent that has open tools to another file sends one
\* agentToolsClear, as the first event, before the new file is read; the
\* agent then has the new path and the provider derived from it, and the one
\* read that follows covers the new file from byte 0 and hands the parser the
\* complete lines of the new file only, nothing buffered from the old file in
\* front of them; if the new file has no complete line yet the agent is left
\* with no tool state, no timer and the new file's fragment as line buffer.
C15_ReassignClearsThenReadsFromStart ==
    \A id \in DOMAIN agents :
        agents[id].activeToolIds # {} =>
            \A f \in (ClaudePaths \cup CodexPaths) \ {agents[id].jsonlFile} :
                \A content \in NewFileContents(f) :
                    LET w0 == [World EXCEPT !.fileSize = MapSet(@, f, Len(content))]
                        io == [disk |-> (f :> content), watchFails |-> FALSE,
                               readFails |-> FALSE]
                        w == reassignAgentToFile(w0, id, f, io)
                        text == Utf8ToString(content)
                        split == SplitLines(text)
                    IN  /\ w.agents[id].jsonlFile = f
                        /\ w.agents[id].provider = detectProviderFromJsonlFile(f)
                        /\ w.sent # <<>>
                        /\ w.sent[1].type = "agentToolsClear"
                        /\ w.agents[id].fileOffset = Len(content)
                        /\ w.agents[id].lineBuffer = split[Len(split)]
                        /\ w.reads = IF content = <<>> THEN <<>>
                                     ELSE <<(<<id, f, 0, Len(content)>>)>>
                        /\ w.parsed = CompleteLines(text)
                        /\ IF CompleteLines(text) # <<>>
                           THEN w.sent[2].type = "agentHeartbeat"
                           ELSE /\ Len(w.sent) = 1
                                /\ NoToolState(w.agents[id])
                                /\ id \notin w.waitingTimers
                                /\ id \notin w.permissionTimers

\* The scan has just moved agent 1, which had a tool open and a fragment of
\* its old file buffered, to the new transcript p2 and read a line of it.
C15_Witness ==
    /\ lastOp = "scanForNewJsonlFiles"
    /\ agents[1].jsonlFile = "p2"
    /\ Len(sent) >= 2
    /\ sent[1].type = "agentToolsClear"
    /\ sent[2].type = "agentHeartbeat"
    /\ announced # {}
    /\ doneTimers = <<>>
    /\ agents[1].fileOffset = 2
    /\ agents[1].lineBuffer = <<>>
    /\ fileSize["p1"] = 3

\* The world once every transcript of directory dir has been deleted.
WithoutTranscripts(w, dir) ==
    [w EXCEPT !.fileSize = [f \in {g \in DOMAIN w.fileSize : ProjectDirOf(g) # dir}
                               |-> w.fileSize[f]]]

\* C16: a resync of an agent whose transcript is missing, with no candidate
\* file in its project directory, sends agentResynced ok=false and changes
\* nothing: the agent's fields, its watcher and poll, and its timers are what
\* they were before the call.
C16_FailedResyncMutatesNothing ==
    \A id \in DOMAIN agents :
        \A io \in IOs :
            LET w0 == WithoutTranscripts(World, agents[id].projectDir)
                w == resyncAgent(w0, id, "none", io)
            IN  /\ w.sent = <<[type |-> "agentResynced", id |-> id, ok |-> FALSE]>>
                /\ w.agents = w0.agents
                /\ w.fileWatchers = w0.fileWatchers
                /\ w.pollingTimers = w0.pollingTimers
                /\ w.waitingTimers = w0.waitingTimers
                /\ w.permissionTimers = w0.permissionTimers

\* Lines the parser must ignore: text that is not JSON, JSON without a type,
\* and records no branch of the agent's dialect matches.
IgnoredLines(provider) ==
    {<<[b |-> "x"]>>, <<SP, [b |-> "x"]>>, LineOf([other |-> "x"])}
    \cup (IF provider = "codex"
          THEN {LineOf(r) : r \in
                   {[type |-> "session_meta"], EventMsg("token_count"), TurnDuration,
                    [type |-> "response_item"],
                    [type |-> "response_item",
                     payload |-> [type |-> "message", role |-> "user", phase |-> "commentary"]],
                    [type |-> "response_item", payload |-> [type |-> "reasoning"]]}}
          ELSE {LineOf(r) : r \in
                   {[type |-> "assistant"], [type |-> "system", subtype |-> "other"],
                    [type |-> "summary"], EventMsg("task_complete"),
                    FunctionCall("t1", "exec_command")}})

\* Worlds a and b differ at most in how far agent id has read.
SameButOffset(a, b, id) ==
    /\ [a.agents[id] EXCEPT !.fileOffset = 0] = [b.agents[id] EXCEPT !.fileOffset = 0]
    /\ a.sent = b.sent
    /\ a.waitingTimers = b.waitingTimers
    /\ a.permissionTimers = b.permissionTimers
    /\ a.doneTimers = b.doneTimers
    /\ a.timerStarts = b.timerStarts

\* C17: the parser returns the world it was given for a line that is not
\* JSON or that no branch of the agent's dialect recognizes (no state of the
\* agent changes, no timer, no event), and a read cycle that holds such a
\* line before or after a record hands both lines to the parser in file
\* order and ends as the cycle with the record alone does.
C17_BadLineIgnored ==
    \A id \in DOMAIN agents :
        \A bad \in IgnoredLines(agents[id].provider) :
            /\ \A p \in LinePreStates(id) :
                   processTranscriptLine(p, id, bad) = [p EXCEPT !.parsed = Append(@, bad)]
            /\ \A r \in CoreOf(agents[id].provider) :
                   LET good == GrowAndRead(id, BytesOf(<<LineOf(r)>>))
                       before == GrowAndRead(id, BytesOf(<<bad, LineOf(r)>>))
                       after == GrowAndRead(id, BytesOf(<<LineOf(r), bad>>))
                   IN  /\ before.parsed = <<bad, LineOf(r)>>
                       /\ after.parsed = <<LineOf(r), bad>>
                       /\ SameButOffset(before, good, id)
                       /\ SameButOffset(after, good, id)

\* A read cycle has just handed the parser a line while a tool was open and a
\* delayed tool-done was pending, and nothing but the heartbeat was sent.
C17_Witness ==
    /\ lastOp = "readNewLines"
    /\ sent = <<[type |-> "agentHeartbeat", id |-> 1]>>
    /\ agents[1].activeToolIds # {}
    /\ doneTimers # <<>>
    /\ 1 \notin waitingTimers
    /\ 1 \notin permissionTimers

\* The ways a read cycle can fail: the file cannot be stat'ed, or it can and
\* opening or reading it throws.
FailedCycles(id) ==
    LET f == agents[id].jsonlFile
    IN  {readNewLines([World EXCEPT !.fileSize = [g \in DOMAIN @ \ {f} |-> @[g]]],
                      id, <<>>, FALSE),
         readNewLines(World, id, <<>>, TRUE)}

\* C18: a read cycle in which stat, open or read fails returns normally,
\* leaves the agent's offset and line buffer (and every other field) as they
\* were, hands no line to the parser and sends nothing; the next readable
\* cycle reads from the unchanged offset to the end of the file, so that in a
\* behaviour with failed cycles the lines handed over are still the complete
\* lines of the bytes read, each once (files of one-byte characters).
C18_ReadFailureLosesNothing ==
    \A id \in DOMAIN agents :
        LET f == agents[id].jsonlFile
            off == agents[id].fileOffset
            rest == SubSeq(fileData[f], off + 1, fileSize[f])
            retry == readNewLines(World, id, rest, FALSE)
        IN  /\ \A w \in FailedCycles(id) :
                   /\ w.agents = agents
                   /\ w.parsed = <<>>
                   /\ w.sent = <<>>
                   /\ w.reads = <<>>
                   /\ w.waitingTimers = waitingTimers
                   /\ w.permissionTimers = permissionTimers
            /\ off <= fileSize[f]
            /\ fileSize[f] > off =>
                   /\ retry.reads = << <<id, f, off, fileSize[f]>> >>
                   /\ retry.agents[id].fileOffset = fileSize[f]
            /\ (lastOp = "readError"
                /\ \A i \in 1..Len(fileData[f]) : fileData[f][i].b \notin {"lead", "cont"})
                   => delivered = CompleteLines(Utf8ToString(SubSeq(fileData[f], 1, off)))

\* A cycle failed while bytes were unread, and a later cycle has handed over
\* the line those bytes complete, once.
C18_Witness ==
    /\ lastOp = "readError"
    /\ fileData[TailFile] = <<[b |-> "x"], NL>>
    /\ agents[1].fileOffset = 2
    /\ delivered = << <<[b |-> "x"]>> >>

HasEvent(events, type) == \E i \in 1..Len(events) : events[i].type = type

\* What the claim asks of a launch that produced world w from the current
\* state when neither a pseudo-terminal nor a pipe could be had.
AbortedWithError(w) ==
    /\ HasEvent(w.sent, "serverError")
    /\ ~HasEvent(w.sent, "agentCreated")
    /\ w.agents = agents
    /\ w.activeAgentId = activeAgentId
    /\ w.nextAgentId = nextAgentId

\* What the claim asks of a launch whose pseudo-terminal failed and whose
\* pipe would work.
CreatedOnPipe(w) ==
    /\ nextAgentId \in DOMAIN w.agents
    /\ w.agents[nextAgentId].processMode = "stdio"
    /\ HasEvent(w.sent, "agentCreated")

\* C19: in either server a launch in which no provider CLI resolves, or in
\* which the pseudo-terminal and the pipe both fail, sends an error event,
\* adds no agent, sends no agentCreated and leaves the active agent and the
\* next agent id alone; a launch in which only the pseudo-terminal fails
\* creates the agent in stdio mode.
C19_FailedSpawnReportedFallbackPiped ==
    /\ \A preferred \in Providers \cup {"none"} : \A clis \in SUBSET Providers :
           LET provider == resolveProvider(preferred, "none", clis)
           IN  \A expectedFile \in ExpectedFiles(provider) :
                   /\ AbortedWithError(serverLaunchNewAgent(World, preferred, clis, FALSE,
                                                            FALSE, expectedFile))
                   /\ provider = "none" =>
                          \A ptyOk \in BOOLEAN : \A stdioOk \in BOOLEAN :
                              AbortedWithError(serverLaunchNewAgent(World, preferred, clis,
                                                                    ptyOk, stdioOk,
                                                                    expectedFile))
                   /\ provider # "none" =>
                          CreatedOnPipe(serverLaunchNewAgent(World, preferred, clis, FALSE,
                                                             TRUE, expectedFile))
    /\ \A expectedFile \in ExpectedFiles("claude") :
           /\ AbortedWithError(websiteLaunchNewAgent(World, FALSE, expectedFile))
           /\ CreatedOnPipe(websiteLaunchNewAgent(World, FALSE, expectedFile))

\* The launch contract as src/server alone meets it.
C19_ServerLaunchAlone ==
    \A preferred \in Providers \cup {"none"} : \A clis \in SUBSET Providers :
        LET provider == resolveProvider(preferred, "none", clis)
        IN  \A expectedFile \in ExpectedFiles(provider) :
                /\ AbortedWithError(serverLaunchNewAgent(World, preferred, clis, FALSE,
                                                         FALSE, expectedFile))
                /\ provider = "none" =>
                       \A ptyOk \in BOOLEAN : \A stdioOk \in BOOLEAN :
                           AbortedWithError(serverLaunchNewAgent(World, preferred, clis,
                                                                 ptyOk, stdioOk, expectedFile))
                /\ provider # "none" =>
                       CreatedOnPipe(serverLaunchNewAgent(World, preferred, clis, FALSE,
                                                          TRUE, expectedFile))

\* C20: when the process of an agent exits, an error event is sent exactly
\* when the exit code is not 0, the exit came inside the quick-exit window and
\* the expected transcript never appeared; whatever the exit, the agent is
\* out of the registry afterwards and agentClosed is sent.
C20_ExitErrorIffAbnormalQuickNoTranscript ==
    \A id \in DOMAIN agents : \A exitCode \in {0, 1} : \A exitedQuickly \in BOOLEAN :
        LET w == processExited(World, id, exitCode, exitedQuickly, agents[id].provider,
                               agents[id].jsonlFile)
        IN  /\ HasEvent(w.sent, "serverError")
                   <=> (/\ exitCode # 0
                        /\ exitedQuickly
                        /\ agents[id].jsonlFile \notin DOMAIN fileSize)
            /\ id \notin DOMAIN w.agents
            /\ HasEvent(w.sent, "agentClosed")

\* The exit contract as agents of the Claude CLI meet it.
C20_ClaudeExitAlone ==
    \A id \in DOMAIN agents : \A exitCode \in {0, 1} : \A exitedQuickly \in BOOLEAN :
        LET w == processExited(World, id, exitCode, exitedQuickly, agents[id].provider,
                               agents[id].jsonlFile)
        IN  /\ agents[id].provider = "claude" =>
                   (HasEvent(w.sent, "serverError")
                       <=> (/\ exitCode # 0
                            /\ exitedQuickly
                            /\ agents[id].jsonlFile \notin DOMAIN fileSize))
            /\ id \notin DOMAIN w.agents
            /\ HasEvent(w.sent, "agentClosed")

\* Nothing is left of agent id in world w: no registry entry, watcher, tail
\* poll, poll for the expected transcript, waiting timer or permission timer.
NothingLeftOf(w, id) ==
    /\ id \notin DOMAIN w.agents
    /\ id \notin w.fileWatchers
    /\ id \notin w.pollingTimers
    /\ id \notin DOMAIN w.jsonlPollTimers
    /\ id \notin w.waitingTimers
    /\ id \notin w.permissionTimers

C22_CloseCleansUpWhateverKillDoes ==
    \A id \in DOMAIN agents : \A killThrows \in BOOLEAN :
        /\ NothingLeftOf(closeAgent(World, id, killThrows), id)
        /\ NothingLeftOf(websiteCloseAgent(World, id, killThrows), id)

\* The close contract as src/website/server alone meets it.
C22_WebsiteCloseAlone ==
    \A id \in DOMAIN agents : \A killThrows \in BOOLEAN :
        NothingLeftOf(websiteCloseAgent(World, id, killThrows), id)

\* The round_robin prompt of a client, sent k times in a row to world w.
RECURSIVE RoundRobinTimes(_, _)
RoundRobinTimes(w, k) ==
    IF k = 0 THEN w
    ELSE RoundRobinTimes(sendPrompt(w, <<[b |-> "x"]>>, "round_robin", "none", "none",
                                    Providers, TRUE, TRUE, "p1"),
                         k - 1)

\* C23: with n > 0 registered agents a round_robin prompt is written to one
\* agent only, the one at index cursor mod n of the ascending ids, leaves the
\* cursor at (that index + 1) mod n, makes that agent the active one and
\* leaves the registry alone; n such prompts in a row are written to the n
\* agents, each once, in ascending order starting from that index and wrapping
\* around.
C23_RoundRobinRotates ==
    DOMAIN agents # {} =>
        LET sortedIds == SortedIds(DOMAIN agents)
            n == Len(sortedIds)
            idx == roundRobinCursor % n
            one == RoundRobinTimes(World, 1)
            all == RoundRobinTimes(World, n)
        IN  /\ \A raw \in Prompts :
                   Trim(raw) # <<>> =>
                       LET w == sendPrompt(World, raw, "round_robin", "none", "none",
                                           Providers, TRUE, TRUE, "p1")
                       IN  /\ w.written = << <<sortedIds[idx + 1], Trim(raw) \o <<CR>> >> >>
                           /\ w.roundRobinCursor = (idx + 1) % n
                           /\ w.activeAgentId = sortedIds[idx + 1]
                           /\ w.agents = agents
                           /\ w.nextAgentId = nextAgentId
            /\ Len(all.written) = n
            /\ \A k \in 1..n : all.written[k][1] = sortedIds[((idx + k - 1) % n) + 1]
            /\ {all.written[k][1] : k \in 1..n} = DOMAIN agents
            /\ all.roundRobinCursor = idx

\* Three agents are registered and a prompt has just been written to the
\* second of them, leaving the cursor at index 2.
C23_Witness ==
    /\ lastOp = "sendPrompt"
    /\ Cardinality(DOMAIN agents) = 3
    /\ Len(written) = 1
    /\ written[1][1] = SortedIds(DOMAIN agents)[2]
    /\ activeAgentId = SortedIds(DOMAIN agents)[2]
    /\ roundRobinCursor = 2

\* The agent the claim's priority names in the current state: the active
\* agent if registered, else the lowest waiting id, else the lowest id with
\* no tool open, else the highest id.
ClaimedActiveTarget ==
    LET ids == DOMAIN agents
        waiting == {id \in ids : agents[id].isWaiting}
        idle == {id \in ids : agents[id].activeToolIds = {}}
        Lowest(S) == CHOOSE x \in S : \A y \in S : x <= y
    IN  IF activeAgentId \in ids THEN activeAgentId
        ELSE IF waiting # {} THEN Lowest(waiting)
        ELSE IF idle # {} THEN Lowest(idle)
        ELSE CHOOSE x \in ids : \A y \in ids : y <= x

\* C24: with a non-empty registry a prompt of route active is written to one
\* agent only: the active agent if it is registered, else the first waiting
\* agent, else the first agent with no tool open, else the agent with the
\* highest id; that agent is the active one afterwards and the cursor and the
\* registry are untouched.
C24_ActiveRoutePriority ==
    DOMAIN agents # {} =>
        \A raw \in Prompts :
            Trim(raw) # <<>> =>
                LET w == sendPrompt(World, raw, "active", "none", "none", Providers, TRUE,
                                    TRUE, "p1")
                IN  /\ w.written = << <<ClaimedActiveTarget, Trim(raw) \o <<CR>> >> >>
                    /\ w.activeAgentId = ClaimedActiveTarget
                    /\ w.roundRobinCursor = roundRobinCursor
                    /\ w.agents = agents

\* No registered agent is focused; the lowest id has a tool open and is not
\* waiting, a higher id is waiting, and the prompt has gone to the latter.
C24_Witness ==
    /\ lastOp = "sendPrompt"
    /\ Len(written) = 1
    /\ \E lo \in DOMAIN agents : \E hi \in DOMAIN agents :
           /\ lo < hi
           /\ agents[lo].activeToolIds # {}
           /\ ~agents[lo].isWaiting
           /\ agents[hi].isWaiting
           /\ written[1][1] = hi
           /\ activeAgentId = hi
           /\ roundRobinCursor = 0

C26_RelayReachesEachTargetOnce ==
    \A sourceId \in 1..MaxPromptAgents : \A targetIds \in TargetLists :
        LET w == relayAgentInfo(World, sourceId, targetIds)
            requested == {targetIds[i] : i \in 1..Len(targetIds)}
            expected == (requested \cap DOMAIN agents) \ {sourceId}
            syncs == SelectSeq(w.sent, LAMBDA e : e.type = "agentTeamSync")
        IN  IF sourceId \in DOMAIN agents
            THEN /\ {w.written[i][1] : i \in 1..Len(w.written)} = expected
                 /\ Len(w.written) = Cardinality(expected)
                 /\ \A i \in 1..Len(w.written) :
                        w.written[i][2] = RelayPrompt(sourceId) \o <<CR>>
                 /\ Len(syncs) = (IF expected = {} THEN 0 ELSE 1)
                 /\ expected # {} =>
                        /\ syncs[1].sourceId = sourceId
                        /\ syncs[1].targetIds = [i \in 1..Len(w.written) |-> w.written[i][1]]
                 /\ ~HasEvent(w.sent, "serverError")
                 /\ w.agents = agents
            ELSE /\ w.written = <<>>
                 /\ Len(w.sent) = 1
                 /\ w.sent[1].type = "serverError"

\* A relay has just been written to two agents of three (the third is the
\* source) and announced.
C26_Witness ==
    /\ lastOp = "relayAgentInfo"
    /\ Cardinality(DOMAIN agents) = 3
    /\ Len(written) = 2
    /\ written[1][1] # written[2][1]
    /\ HasEvent(sent, "agentTeamSync")

\* C27: every agent in the registry has an id below the counter; a step
\* never lowers the counter; an id that enters the registry in a step (spawn
\* or adoption) is at or above the counter as it was and below the counter
\* as it is, so it was given to no agent before, removed or not; an agent
\* that stays (a restore included) keeps its terminal; and the counter a
\* restore leaves in a fresh process is above every restored id.
C27_IdsNeverReused ==
    [][/\ \A id \in DOMAIN agents : id < nextAgentId
       /\ \A id \in DOMAIN agents' : id < nextAgentId'
       /\ nextAgentId' >= nextAgentId
       /\ \A id \in DOMAIN agents' \ DOMAIN agents :
              id >= nextAgentId /\ id < nextAgentId'
       /\ Cardinality(DOMAIN agents' \ DOMAIN agents) = nextAgentId' - nextAgentId
       /\ \A id \in DOMAIN agents' \cap DOMAIN agents :
              agents'[id].terminalRef = agents[id].terminalRef
       /\ \A restored \in SUBSET (1..(MaxAgents + 1)) :
              \A id \in restored : id < AdvanceNextAgentId(1, restored)]_vars

\* Agent 1 has been removed and agent 2, adopted on a terminal it was not
\* launched in, is registered.
C27_Witness ==
    /\ nextAgentId = 3
    /\ DOMAIN agents = {2}
    /\ agents[2].terminalRef # TerminalOf(2)

\* The provider the precedence names: the requested one, else the one the
\* environment names, else the first CLI in PATH, else the default.
ClaimedProvider(preferred, forced, clis) ==
    IF preferred # "none" THEN preferred
    ELSE IF forced # "none" THEN forced
    ELSE IF "claude" \in clis THEN "claude"
    ELSE IF "codex" \in clis THEN "codex"
    ELSE "claude"

\* C28: for every requested provider (or none), every provider named by the
\* environment (or none) and every set of CLIs in PATH, a launch whose
\* process can be created registers an agent whose provider is the requested
\* one if given, else the environment's, else the first CLI found (claude
\* before codex), else the default; and the extension resolves the same
\* provider.
C28_ProviderPrecedence ==
    nextAgentId <= MaxAgents =>
        \A preferred \in Providers \cup {"none"} : \A forced \in Providers \cup {"none"} :
            \A clis \in SUBSET Providers :
                LET claimed == ClaimedProvider(preferred, forced, clis)
                IN  /\ resolveTerminalProvider(preferred, forced, clis) = claimed
                    /\ \A expectedFile \in ExpectedFiles(claimed) :
                           LET w == launchNewAgent(World, preferred, forced, clis, TRUE, TRUE,
                                                   expectedFile, <<>>)
                           IN  /\ nextAgentId \in DOMAIN w.agents
                               /\ w.agents[nextAgentId].provider = claimed

\* What both resolutions do: the first of requested, environment, claude,
\* codex whose CLI is in PATH; with no CLI in PATH the server launches
\* nothing and the extension takes requested, environment, claude in turn.
C28_FirstInstalledCandidate ==
    nextAgentId <= MaxAgents =>
        \A preferred \in Providers \cup {"none"} : \A forced \in Providers \cup {"none"} :
            \A clis \in SUBSET Providers :
                LET installed == IF preferred \in clis THEN preferred
                                 ELSE IF forced \in clis THEN forced
                                 ELSE IF "claude" \in clis THEN "claude"
                                 ELSE IF "codex" \in clis THEN "codex"
                                 ELSE "none"
                IN  /\ resolveTerminalProvider(preferred, forced, clis)
                           = (IF installed # "none" THEN installed
                              ELSE ClaimedProvider(preferred, forced, {}))
                    /\ \A expectedFile \in ExpectedFiles(installed) :
                           LET w == launchNewAgent(World, preferred, forced, clis, TRUE, TRUE,
                                                   expectedFile, <<>>)
                           IN  IF installed = "none"
                               THEN w.agents = agents /\ HasEvent(w.sent, "serverError")
                               ELSE w.agents[nextAgentId].provider = installed

\* The transcripts a step from the registry before to the world w after
\* attributes: those of new agents and those agents were moved to.
Attributed(before, w) ==
    {w.agents[id].jsonlFile : id \in {a \in DOMAIN w.agents :
        a \notin DOMAIN before \/ before[a].jsonlFile # w.agents[a].jsonlFile}}

\* What one cycle of the running scan does in any state: every listed file is
\* known afterwards; no attributed file was known before; an agent that was
\* registered is moved only if it is the active agent and its provider is
\* the provider of the file; and every transcript an agent expects is known
\* or is the placeholder of a codex agent, which never exists.
C29_ScanCycleAttributesOnlyUnknown ==
    /\ \A id \in DOMAIN agents :
           agents[id].jsonlFile \in knownJsonlFiles \/ IsPendingPath(agents[id].jsonlFile)
    /\ projectScanState.running =>
           LET listed == listProjectJsonlFiles(World, projectScanState.projectDir,
                                               projectScanState.provider)
           IN  \A files \in Orderings(listed) :
                   \A activeTerminal \in {"none", "external"} : \A io \in IOs :
                       LET w == scanForNewJsonlFiles(World, files, activeTerminal, io)
                       IN  /\ listed \subseteq w.knownJsonlFiles
                           /\ Attributed(agents, w) \cap knownJsonlFiles = {}
                           /\ \A id \in DOMAIN agents :
                                  w.agents[id].jsonlFile # agents[id].jsonlFile =>
                                      /\ activeAgentId = id
                                      /\ agents[id].provider
                                             = detectProviderFromJsonlFile(w.agents[id].jsonlFile)

\* The bytes of files of the given sizes, whole lines of two bytes each.
DiskWith(sizes) ==
    [f \in DOMAIN sizes |->
        BytesOf([i \in 1..(sizes[f] \div 2) |-> LineOf(RegistryRecord(f))])]

\* The first cycle of a scan that is started in any state, after the files
\* that existed at the start have or have not grown, attributes none of them.
C29_NothingFromBeforeTheScan ==
    \A provider \in Providers :
        LET projectDir == ProjectDirFor(provider)
            w1 == ensureProjectScan(World, projectDir, provider)
            existing == DOMAIN fileSize
        IN  w1.projectScanState # projectScanState =>
                \A grown \in SUBSET {f \in existing : fileSize[f] + 2 <= RegistryFileLimit(f)} :
                    LET sizes == [f \in existing |-> IF f \in grown THEN fileSize[f] + 2
                                                     ELSE fileSize[f]]
                        w2 == [w1 EXCEPT !.fileSize = sizes]
                        io == [disk |-> DiskWith(sizes), watchFails |-> FALSE,
                               readFails |-> FALSE]
                    IN  \A files \in Orderings(listProjectJsonlFiles(w2, projectDir, provider)) :
                            \A activeTerminal \in {"none", "external"} :
                                Attributed(agents,
                                           scanForNewJsonlFiles(w2, files, activeTerminal, io))
                                    \cap existing = {}

\* C29: the scan moves a registered agent to a file only if the file was not
\* known, the agent is the active agent and its provider is the provider of
\* the file's path; every listed file is known after the cycle, so no file is
\* attributed twice; no file that existed when the scan was started and no
\* transcript an agent expects is ever attributed.
C29_ScanAttributesNewFilesOnly ==
    /\ C29_ScanCycleAttributesOnlyUnknown
    /\ C29_NothingFromBeforeTheScan

\* The initial prompt of agent id waits for the transcript (pendingPrompt is
\* set); a timeout holding it is pending; it has just been written.
PromptWaits(id) ==
    /\ id \in DOMAIN agents
    /\ Has(agents[id], "pendingPrompt")
    /\ agents[id].pendingPrompt # <<>>

PromptScheduled(id) == \E i \in 1..Len(promptTimers) : promptTimers[i].id = id

PromptWritten(id) ==
    /\ lastOp = "promptTimerFires"
    /\ \E k \in 1..Len(written) : written[k][1] = id

\* No step writes an initial prompt twice or to an agent that has left: a
\* step that writes to id is the firing of the one timeout of id, id is
\* registered, and afterwards no prompt of id waits or is scheduled; and a
\* prompt starts to wait or to be scheduled only at the launch of its agent
\* or, scheduled, when it stops waiting.
PromptWrittenAtMostOnce ==
    \A id \in 1..MaxStartupAgents :
        /\ PromptWritten(id)' /\ lastOp' = "promptTimerFires" /\ written' # written =>
               /\ id \in DOMAIN agents
               /\ PromptScheduled(id) /\ ~PromptWaits(id)
               /\ ~PromptScheduled(id)' /\ ~PromptWaits(id)'
               /\ Len(written') = 1
        /\ PromptWaits(id)' /\ ~PromptWaits(id) => id = nextAgentId
        /\ PromptScheduled(id)' /\ ~PromptScheduled(id) => id = nextAgentId \/ PromptWaits(id)
        /\ ~(PromptWaits(id) /\ PromptScheduled(id))
        /\ Cardinality({i \in 1..Len(promptTimers) : promptTimers[i].id = id}) <= 1

\* C30: an initial prompt supplied at the launch of an agent is written to
\* the agent at most once and only while the agent is registered, and an
\* agent that stays registered is eventually written its prompt, whether its
\* transcript appears or not.
C30_InitialPromptWrittenOnce ==
    /\ [][PromptWrittenAtMostOnce]_vars
    /\ \A id \in 1..MaxStartupAgents :
           (PromptWaits(id) \/ (id \in DOMAIN agents /\ PromptScheduled(id)))
               ~> (PromptWritten(id) \/ id \notin DOMAIN agents)

\* What holds: the prompt is written at most once and never to an agent that
\* has left, and a prompt whose timeout has been scheduled is eventually
\* written unless the agent leaves.
C30_ScheduledPromptWrittenOnce ==
    /\ [][PromptWrittenAtMostOnce]_vars
    /\ \A id \in 1..MaxStartupAgents :
           (id \in DOMAIN agents /\ PromptScheduled(id))
               ~> (PromptWritten(id) \/ id \notin DOMAIN agents)

\* The timeout of the servers, fired in any state of src/server: one write of
\* the prompt if the agent is registered, none if it is not, and the timeout
\* is gone.
C30_ServerTimeoutWritesOnce ==
    \A i \in 1..Len(promptTimers) :
        LET t == promptTimers[i]
            w == initialPromptTimerFires(World, i)
        IN  /\ w.written = IF t.id \in DOMAIN agents THEN <<<<t.id, t.prompt \o <<CR>>>>>>
                           ELSE <<>>
            /\ Len(w.promptTimers) = Len(promptTimers) - 1
            /\ \A j \in 1..Len(w.promptTimers) : w.promptTimers[j].id # t.id
            /\ w.agents = agents

\* C31: every parent id under which an agent holds sub-invocations is an
\* active tool of the agent named Task; and a tool_result for such a parent
\* removes its sub-invocations and sends one subagentClear for it.
C31_SubInvocationsUnderActiveTask ==
    \A id \in DOMAIN agents :
        LET ag == agents[id]
        IN  /\ DOMAIN ag.activeSubagentToolIds = DOMAIN ag.activeSubagentToolNames
            /\ \A parent \in DOMAIN ag.activeSubagentToolIds :
                   /\ parent \in ag.activeToolIds
                   /\ MapGet(ag.activeToolNames, parent, "") = "Task"
                   /\ LET w == processTranscriptLine(World, id, LineOf(User(<<ToolResult(parent)>>)))
                          clears == SelectSeq(w.sent, LAMBDA e : e.type = "subagentClear")
                      IN  /\ parent \notin DOMAIN w.agents[id].activeSubagentToolIds
                          /\ parent \notin DOMAIN w.agents[id].activeSubagentToolNames
                          /\ Len(clears) = 1
                          /\ clears[1].parentToolId = parent

\* C32: in both dialects a record carrying the result of a tool id that is
\* not in activeToolIds sends no agentToolDone and schedules none, so every
\* agentToolDone follows a start of its id that was still open.
C32_NoDoneForInactiveTool ==
    \A id \in DOMAIN agents :
        \A r \in RecordsOf(agents[id].provider) :
            \A t \in ToolIds :
                \A p \in LinePreStates(id) :
                    (t \notin p.agents[id].activeToolIds /\ Closes(r, t)) =>
                        LET w == processTranscriptLine(p, id, LineOf(r))
                        IN  /\ ToolDones(w.sent, id, t) = 0
                            /\ ToolDones(w.doneTimers, id, t)
                                   = ToolDones(p.doneTimers, id, t)

\* The same statement for Dialect B agents alone, whose handler tests
\* `existed` before it schedules the event.
C32_CodexNoDoneForInactiveTool ==
    \A id \in DOMAIN agents :
        agents[id].provider = "codex" =>
            \A r \in CodexRecords :
                \A t \in ToolIds :
                    \A p \in LinePreStates(id) :
                        (t \notin p.agents[id].activeToolIds /\ Closes(r, t)) =>
                            LET w == processTranscriptLine(p, id, LineOf(r))
                            IN  /\ ToolDones(w.sent, id, t) = 0
                                /\ ToolDones(w.doneTimers, id, t)
                                       = ToolDones(p.doneTimers, id, t)

\* What resyncAgent leaves when agent id's transcript is gone and newest, of
\* the given content, is the candidate it picks: the new path is a known
\* file, the one read covers the new file from byte 0 with nothing buffered
\* from the old file, and the last event is agentResynced ok=true.
ResyncMovesToCandidate(w, id, newest, content) ==
    LET text == Utf8ToString(content)
        split == SplitLines(text)
    IN  /\ w.agents[id].jsonlFile = newest
        /\ newest \in w.knownJsonlFiles
        /\ w.agents[id].fileOffset = Len(content)
        /\ w.agents[id].lineBuffer = split[Len(split)]
        /\ w.reads = IF content = <<>> THEN <<>>
                     ELSE <<(<<id, newest, 0, Len(content)>>)>>
        /\ w.parsed = CompleteLines(text)
        /\ w.sent # <<>>
        /\ w.sent[Len(w.sent)] = [type |-> "agentResynced", id |-> id, ok |-> TRUE]

\* C33: a resync of an agent with open tools whose transcript is missing,
\* while its project directory holds a candidate, clears the agent's tool
\* state and sends agentToolsClear first, reads the candidate from byte 0
\* with an empty line buffer, adds it to the known files and ends with
\* agentResynced ok=true.
C33_ResyncClearsAndRestarts ==
    \A id \in DOMAIN agents :
        agents[id].activeToolIds # {} =>
            \A f \in (ClaudePaths \cup CodexPaths) \ {agents[id].jsonlFile} :
                \A content \in NewFileContents(f) :
                    LET old == agents[id].jsonlFile
                        sizes == [g \in (DOMAIN fileSize \cup {f}) \ {old} |->
                                     IF g = f THEN Len(content) ELSE fileSize[g]]
                        w0 == [World EXCEPT !.fileSize = sizes]
                        io == [disk |-> (f :> content), watchFails |-> FALSE,
                               readFails |-> FALSE]
                        w == resyncAgent(w0, id, f, io)
                    IN  f \in listProjectJsonlFiles(w0, agents[id].projectDir,
                                                    agents[id].provider) =>
                            /\ ResyncMovesToCandidate(w, id, f, content)
                            /\ w.sent[1].type = "agentToolsClear"
                            /\ CompleteLines(Utf8ToString(content)) = <<>>
                                   => NoToolState(w.agents[id])

\* The part of C33 that does not concern the tool state.
C33_ResyncReadsCandidateFromStart ==
    \A id \in DOMAIN agents :
        \A f \in (ClaudePaths \cup CodexPaths) \ {agents[id].jsonlFile} :
            \A content \in NewFileContents(f) :
                LET old == agents[id].jsonlFile
                    sizes == [g \in (DOMAIN fileSize \cup {f}) \ {old} |->
                                 IF g = f THEN Len(content) ELSE fileSize[g]]
                    w0 == [World EXCEPT !.fileSize = sizes]
                    io == [disk |-> (f :> content), watchFails |-> FALSE,
                           readFails |-> FALSE]
                IN  f \in listProjectJsonlFiles(w0, agents[id].projectDir,
                                                agents[id].provider) =>
                        ResyncMovesToCandidate(resyncAgent(w0, id, f, io), id, f, content)

\* C34: an agent whose waiting timer is armed has no active tool, and in
\* both dialects a record that starts a tool leaves no waiting timer running
\* for the agent, also when the timer was started by an earlier line of the
\* same read.
C34_WaitingTimerOnlyWithoutTools ==
    /\ \A id \in waitingTimers :
           id \in DOMAIN agents => agents[id].activeToolIds = {}
    /\ \A id \in DOMAIN agents :
           \A r \in RecordsOf(agents[id].provider) :
               IsToolStart(r) =>
                   \A p \in LinePreStates(id) :
                       id \notin processTranscriptLine(p, id, LineOf(r)).waitingTimers

\* The same statement for Dialect A agents alone, whose assistant branch
\* calls cancelWaitingTimer before it records the tools.
C34_ClaudeWaitingTimerOnlyWithoutTools ==
    /\ \A id \in waitingTimers :
           (id \in DOMAIN agents /\ agents[id].provider = "claude")
               => agents[id].activeToolIds = {}
    /\ \A id \in DOMAIN agents :
           agents[id].provider = "claude" =>
               \A r \in ClaudeRecords :
                   IsToolStart(r) =>
                       \A p \in LinePreStates(id) :
                           id \notin processTranscriptLine(p, id, LineOf(r)).waitingTimers

\* C35: once an agent has been removed and agentClosed sent for it, nothing
\* that is still to run emits an event carrying its id: no waiting or
\* permission timer of it is armed, and the delayed agentToolDone callback
\* that fires next belongs to a registered agent.
C35_NoEventAfterAgentClosed ==
    /\ waitingTimers \subseteq DOMAIN agents
    /\ permissionTimers \subseteq DOMAIN agents
    /\ doneTimers # <<>> =>
           LET w == doneTimerFires(World)
           IN  \A i \in 1..Len(w.sent) : w.sent[i].id \in DOMAIN agents

\* The part of C35 that removeAgent takes care of: the two timers it cancels.
C35_NoTimerOfRemovedAgent ==
    /\ waitingTimers \subseteq DOMAIN agents
    /\ permissionTimers \subseteq DOMAIN agents
    /\ fileWatchers \cup pollingTimers \subseteq DOMAIN agents

AgentClosedEvents(events, id) ==
    Cardinality({i \in 1..Len(events) :
                    events[i].type = "agentClosed" /\ events[i].id = id})

\* The ids that were registered and removed: every removal of the servers
\* (process exit, closeAgent) sends agentClosed for the id it removes.
ClosedIds == (1..(nextAgentId - 1)) \ DOMAIN agents

\* C36: agentClosed is sent at most once for an id: a closeAgent command
\* for an agent that was closed before, handled by either server and
\* whether kill() returns or throws, sends no agentClosed for it again.
C36_AgentClosedAtMostOnce ==
    \A id \in ClosedIds : \A killThrows \in BOOLEAN :
        /\ AgentClosedEvents(closeAgent(World, id, killThrows).sent, id) = 0
        /\ AgentClosedEvents(websiteCloseAgent(World, id, killThrows).sent, id) = 0

\* The statement as the closeAgent handler of src/server alone meets it.
C36_ServerCloseAlone ==
    \A id \in ClosedIds : \A killThrows \in BOOLEAN :
        AgentClosedEvents(closeAgent(World, id, killThrows).sent, id) = 0

\* No watcher and no tail poll of agent id is in the maps of world w.
NoneLive(w, id) == id \notin w.fileWatchers \cup w.pollingTimers

\* The agents for which the next tick of the poll for the expected
\* transcript calls startFileWatching: the poll is pending and the agent's
\* file is there.
AboutToWatch ==
    {id \in DOMAIN jsonlPollTimers \cap DOMAIN agents :
        agents[id].jsonlFile \in DOMAIN fileSize}

\* The poll for the expected transcript calls startFileWatching only for an
\* agent with no live watcher and no live tail poll, also when a scan has
\* moved the agent to another file while the poll was pending.
C37_PollStartsWithNoneLive ==
    \A id \in AboutToWatch : NoneLive(World, id)

\* restoreAgents calls startFileWatching, for a persisted agent whose
\* terminal is live and whose file exists, only if no watcher and no tail
\* poll of that id is live.
C37_RestoreStartsWithNoneLive ==
    \A id \in DOMAIN agents :
        agents[id].jsonlFile \in DOMAIN fileSize =>
            \A io \in IOs :
                RestoreOne(World, id, io).pollingTimers = pollingTimers \cup {id}
                    => NoneLive(World, id)

\* C37: an agent has at most one live watcher and one live tail poll, as
\* every call of startFileWatching finds none live for the agent: the call
\* of the poll for the expected transcript and the call of restoreAgents
\* (a scan and a resync that move an agent stop both before they call it).
C37_WatchStartsWithNoneLive ==
    /\ C37_PollStartsWithNoneLive
    /\ C37_RestoreStartsWithNoneLive
    /\ \A id \in DOMAIN agents : NoneLive(StopWatching(World, id), id)

\* C38: prompts for one agent are written to it in the order they were
\* received, the initial prompt given at launch included: while the initial
\* prompt of a registered agent is still waiting for its timeout, no prompt
\* received later is written to that agent.
C38_NoPromptOvertakesInitialPrompt ==
    \A i \in 1..Len(promptTimers) :
        promptTimers[i].id \in DOMAIN agents =>
            \A raw \in Prompts : \A route \in {"active", "broadcast", "round_robin"} :
                LET w == sendPrompt(World, raw, route, "none", "none", Providers, TRUE, TRUE,
                                    "p1")
                IN  \A k \in 1..Len(w.written) : w.written[k][1] # promptTimers[i].id

\* C39: an agent with isWaiting true has no active tool and no active
\* sub-invocation.
C39_WaitingAgentHasNoTools ==
    \A id \in DOMAIN agents :
        agents[id].isWaiting =>
            /\ agents[id].activeToolIds = {}
            /\ DOMAIN agents[id].activeSubagentToolIds = {}
            /\ DOMAIN agents[id].activeSubagentToolNames = {}

\* The half of C39 about the tools themselves.
C39_WaitingAgentHasNoActiveTool ==
    \A id \in DOMAIN agents :
        agents[id].isWaiting => agents[id].activeToolIds = {}

\* C40: in every state, for an agent of either dialect, activeToolIds, the
\* keys of activeToolStatuses and the keys of activeToolNames are one set.
C40_ToolMapsHaveOneKeySet ==
    \A id \in DOMAIN agents :
        /\ DOMAIN agents[id].activeToolStatuses = agents[id].activeToolIds
        /\ DOMAIN agents[id].activeToolNames = agents[id].activeToolIds

\* One tool of an agent has been closed, its agentToolDone is still pending,
\* and another tool of the agent is active with its status and its name.
C40_Witness ==
    \E id \in DOMAIN agents :
        /\ agents[id].activeToolIds # {}
        /\ \E i \in 1..Len(doneTimers) :
              /\ doneTimers[i].id = id
              /\ doneTimers[i].type = "agentToolDone"
              /\ doneTimers[i].toolId \notin agents[id].activeToolIds
        /\ DOMAIN agents[id].activeToolNames = agents[id].activeToolIds
====
